---- MODULE Spec2Model ----
(***************************************************************************)
(* A model of the vct_terminal web client: the api client's request(),     *)
(* the pure formatting helpers, and the pages and panels that own          *)
(* loading/error state.  Each part has its own specification; the          *)
(* variables of the other parts stay at their initial values.              *)
(***************************************************************************)
EXTENDS Integers, Sequences, FiniteSets, TLC

VARIABLES
    \* ---- api client: one invocation of request() at a time
    apiFn,        \* the api function that was invoked ("" before the first call)
    reqPc,        \* "idle" | "fetching" | "reading" | "resolved" | "rejected"
    calls,        \* invocations of api functions so far
    fetches,      \* fetch() calls issued so far
    timerArmed,   \* the setTimeout of the current invocation is pending
    elapsed,      \* ms since the current invocation was issued
    response,     \* the Response whose headers arrived, or NoResponse
    outcome,      \* what the invocation settled with, or NoOutcome
    cause,        \* why the invocation rejected ("" when it did not)
    \* ---- MatchCard: the arguments and the result of resolveBoType
    match_bo_type, match_score1, match_score2,   \* match.bo_type, match.score1, match.score2
    boLabel,      \* "" until the card is rendered
    \* ---- SeriesProbs: its props, the format it derives and the chart rows
    scoreProbs,
    seriesBoType, \* the boType prop
    format,       \* "" until the component is rendered
    chartData,    \* the rows, once charted is TRUE
    charted,
    \* ---- one action of a page or panel and the api calls it issues
    site,         \* the action that runs
    sitePc,       \* "idle" | "running" | "done" | "failed"
    siteError,    \* the error state of the action's component
    sitePending,  \* the api functions of the action that are in flight
    siteQueue,    \* the api functions the action has still to call, in order
    siteFailure,  \* the last rejected call and whether a catch handler saw it
    \* ---- App shell
    route,        \* the path the router shows
    appConfig,    \* App's config state
    configError,  \* App's configError state
    configPc,     \* App's initial getConfig: "pending" | "done" | "failed"
    \* ---- the mounted page (DashboardPage or CrossMatchParlaysPage)
    loading, error,
    loads,        \* the loads the page issued since it was mounted, in order
    syncs,        \* the api.sync calls of runSync/runSyncAll in flight
    lastSettled,  \* the index in loads of the load that settled last, or 0
    lastEvent,    \* "issue" or "settle": what happened last to a load
    \* ---- DashboardPage
    matches, events, config, fromYear, statusFilter,
    \* ---- CrossMatchParlaysPage
    data, dateFrom, maxLegs,
    \* ---- OddsForm
    teams, maps,  \* the props
    values,       \* the structured inputs that were typed into, by field key
    batchText,
    busy, oddsError,
    oddsPc,       \* "idle" | "structured" | "batch" | "auto" | "invalid"
    oddsRequest,  \* the body of the api.saveOdds call in flight, or NoRequest
    \* ---- MatchAnalysisPage, which mounts OddsForm and VetoInput
    pageLoading, pageError,
    pageLoads,    \* the runs of loadAll at their await, by number
    match,        \* the page's match state: the response of getMatch it holds
    analysis,     \* the page's analysis state (its teams and maps are the props above)
    reloads,      \* the runs of loadAll started through onSaved
    orphans,      \* the calls still awaited by forms that left the tree, by form
    \* ---- VetoInput
    vetoText, vetoLoading, vetoError,
    vetoPc,       \* "idle" | "saving" | "invalid"
    \* ---- StatsResult: the arguments and the result of formatValue
    fmtVal, fmtKey,
    fmtOut,       \* Undefined until the value is formatted
    \* ---- StatsResult: renderMarkdownLines on one line
    mdLine,       \* the line
    mdKind,       \* the element it becomes: "h3" | "h2" | "li" | "br" | "p" ("" before)
    remaining,    \* the loop variable of the bold splitting
    parts,        \* the children pushed so far
    mdPc,         \* "start" | "loop" | "done"
    \* StatsResult
    props,        \* the props of StatsResult: { data }
    md,           \* the markdown of the last render
    view,         \* what the last render returned
    \* LivePage and LivePanel
    liveState,    \* LivePage's data, the liveState prop of the panel
    mapNumber,    \* the map-number field of LivePanel
    mapEdited,    \* the user typed in the map-number field
    recorded,     \* the map numbers whose result the server holds
    winnerSide,   \* "a" | "b"
    panelError,   \* LivePanel's error
    submits,      \* the runs of submitResult, each at its await
    liveCalls,    \* the API calls issued so far
    updates,      \* the arguments onUpdated was called with
    \* StatsPage
    query, teamId, h2hA, h2hB,  \* the text input and the three selects
    statsResult,  \* result: null or the response shown
    statsError,   \* error
    statsCalls,   \* every call issued by an action, and whether it is still awaited
    errorOf,      \* the call whose rejection set the error (0: none, or a validation message)
    \* SettingsPage, under App
    parentConfig, \* App's config, the config prop
    appLoadPc,    \* App's getConfig: "pending" | "done" | "failed"
    settingsConfig, \* the page's config
    saving,       \* the page's loading
    settingsError, success,
    refreshes,    \* the runs of refresh: who started each, and whether it is awaited
    savePayload,  \* the body of the updateConfig call awaited, or null
    edited,       \* the user has edited a field since the page was mounted
    \* SettingsPage.setField, on objects held by reference
    sfHeap,       \* the objects: sfHeap[r] is the object of reference r, key by key
    sfPrev,       \* prev: null or a reference
    sfPath, sfValue,  \* the arguments
    sfNext,       \* what the updater returned (undefined before it ran)
    \* ---- the entries of the structured form written in the batch format
    structured,   \* what collectStructuredEntries returned
    written,      \* each entry as a line of the batch format
    parsed,       \* parseBatch of each line
    rtDone

apiVars == <<apiFn, reqPc, calls, fetches, timerArmed, elapsed, response, outcome, cause>>
boVars == <<match_bo_type, match_score1, match_score2, boLabel>>
chartVars == <<scoreProbs, seriesBoType, format, chartData, charted>>

siteVars == <<site, sitePc, siteError, sitePending, siteQueue, siteFailure>>
appVars == <<route, appConfig, configError, configPc>>
pageVars == <<loading, error, loads, syncs, lastSettled, lastEvent>>
dashVars == <<matches, events, config, fromYear, statusFilter>>
parlaysVars == <<data, dateFrom, maxLegs>>
shellVars == <<appVars, pageVars, dashVars, parlaysVars>>

formVars == <<values, batchText, busy, oddsError, oddsPc, oddsRequest>>
matchPageVars == <<pageLoading, pageError, pageLoads, match, analysis, reloads, orphans>>
vetoVars == <<vetoText, vetoLoading, vetoError, vetoPc>>
oddsVars == <<teams, maps, formVars, matchPageVars, vetoVars>>

fmtVars == <<fmtVal, fmtKey, fmtOut>>

mdVars == <<mdLine, mdKind, remaining, parts, mdPc>>

resultVars == <<props, md, view>>

liveVars == <<liveState, mapNumber, mapEdited, recorded, winnerSide, panelError, submits, liveCalls, updates>>

statsVars == <<query, teamId, h2hA, h2hB, statsResult, statsError, statsCalls, errorOf>>

settingsVars == <<parentConfig, appLoadPc, settingsConfig, saving, settingsError, success, refreshes, savePayload, edited>>

setFieldVars == <<sfHeap, sfPrev, sfPath, sfValue, sfNext>>

roundTripVars == <<structured, written, parsed, rtDone>>

vars == <<apiVars, boVars, chartVars, siteVars, shellVars, oddsVars, fmtVars, mdVars, resultVars, liveVars, statsVars, settingsVars, setFieldVars, roundTripVars>>

\* a step of one part leaves the other parts alone
OnlyApi == UNCHANGED <<boVars, chartVars, siteVars, shellVars, oddsVars, fmtVars, mdVars, resultVars, liveVars, statsVars, settingsVars, setFieldVars, roundTripVars>>
OnlyBo == UNCHANGED <<apiVars, chartVars, siteVars, shellVars, oddsVars, fmtVars, mdVars, resultVars, liveVars, statsVars, settingsVars, setFieldVars, roundTripVars>>
OnlyChart == UNCHANGED <<apiVars, boVars, siteVars, shellVars, oddsVars, fmtVars, mdVars, resultVars, liveVars, statsVars, settingsVars, setFieldVars, roundTripVars>>
OnlySite == UNCHANGED <<apiVars, boVars, chartVars, shellVars, oddsVars, fmtVars, mdVars, resultVars, liveVars, statsVars, settingsVars, setFieldVars, roundTripVars>>
OnlyShell == UNCHANGED <<apiVars, boVars, chartVars, siteVars, oddsVars, fmtVars, mdVars, resultVars, liveVars, statsVars, settingsVars, setFieldVars, roundTripVars>>
OnlyOdds == UNCHANGED <<apiVars, boVars, chartVars, siteVars, shellVars, fmtVars, mdVars, resultVars, liveVars, statsVars, settingsVars, setFieldVars, roundTripVars>>
OnlyFmt == UNCHANGED <<apiVars, boVars, chartVars, siteVars, shellVars, oddsVars, mdVars, resultVars, liveVars, statsVars, settingsVars, setFieldVars, roundTripVars>>
OnlyMd == UNCHANGED <<apiVars, boVars, chartVars, siteVars, shellVars, oddsVars, fmtVars, resultVars, liveVars, statsVars, settingsVars, setFieldVars, roundTripVars>>
OnlyResult == UNCHANGED <<apiVars, boVars, chartVars, siteVars, shellVars, oddsVars, fmtVars, mdVars, liveVars, statsVars, settingsVars, setFieldVars, roundTripVars>>
OnlyLive == UNCHANGED <<apiVars, boVars, chartVars, siteVars, shellVars, oddsVars, fmtVars, mdVars, resultVars, statsVars, settingsVars, setFieldVars, roundTripVars>>
OnlyStats == UNCHANGED <<apiVars, boVars, chartVars, siteVars, shellVars, oddsVars, fmtVars, mdVars, resultVars, liveVars, settingsVars, setFieldVars, roundTripVars>>
OnlySettings == UNCHANGED <<apiVars, boVars, chartVars, siteVars, shellVars, oddsVars, fmtVars, mdVars, resultVars, liveVars, statsVars, setFieldVars, roundTripVars>>
OnlySetField == UNCHANGED <<apiVars, boVars, chartVars, siteVars, shellVars, oddsVars, fmtVars, mdVars, resultVars, liveVars, statsVars, settingsVars, roundTripVars>>
OnlyRoundTrip == UNCHANGED <<apiVars, boVars, chartVars, siteVars, shellVars, oddsVars, fmtVars, mdVars, resultVars, liveVars, statsVars, settingsVars, setFieldVars>>

----------------------------------------------------------------------------
(* Bounds of the model *)

MaxCalls == 2
TickMs == 10000
MaxElapsed == 50000
MaxKeys == 3
MaxLoads == 2
MaxBody == 6
MaxSubmits == 2
MaxReloads == 2
MaxQueries == 2
MaxRefreshes == 2

----------------------------------------------------------------------------
(* JavaScript values of a response payload.  A member of an object is      *)
(* undefined, a string, or an object (held as its JSON text).              *)

Undefined == [t |-> "undefined"]
Str(s) == [t |-> "string", s |-> s]
Obj(json) == [t |-> "object", json |-> json]

Truthy(v) ==
    CASE v.t = "undefined" -> FALSE
      [] v.t = "string" -> v.s # ""
      [] v.t = "boolean" -> v.b
      [] OTHER -> TRUE

\* a || b
Or(a, b) == IF Truthy(a) THEN a ELSE b

\* JSON.stringify of a member value that is not a string
JSONstringify(v) == IF v.t = "object" THEN v.json ELSE "undefined"

\* What response.json() can yield: null, or an object with detail/error members
PNull == [p |-> "null"]
PObj(d, e, f) == [p |-> "object", detail |-> d, error |-> e, fallback_steps |-> f]

\* payload?.detail, payload?.error
Member(payload, key) ==
    IF payload.p = "null" THEN Undefined
    ELSE IF key = "detail" THEN payload.detail ELSE payload.error

\* payload.fallback_steps: absent, or an array of strings
NoSteps == [isArray |-> FALSE, steps |-> <<>>]
Steps(seq) == [isArray |-> TRUE, steps |-> seq]
FallbackSteps == {NoSteps, Steps(<<"abra o site", "cole as odds">>)}

MemberValues ==
    {Undefined, Str(""), [t |-> "boolean", b |-> FALSE], Str("Match not found"),
     Obj("[{\"loc\":[\"body\"]}]")}

Payloads ==
    {PNull} \cup {PObj(d, e, f) : d \in MemberValues,
                                  e \in {Undefined, Str("scrape failed")},
                                  f \in FallbackSteps}

----------------------------------------------------------------------------
(* The api client *)

REQUEST_TIMEOUT_MS == 30000

TimeoutMessage ==
    "A requisição passou do tempo limite (30s). Verifique se a API está rodando na porta 8000 e se o servidor não travou."

\* one function per backend endpoint; each is a single call of request()
ApiFunctions ==
    {"getEvents", "getTeams", "getMaps", "getMarkets", "getMatches", "getMatch",
     "getMatchAnalysis", "getCrossMatchParlays", "saveVeto", "saveOdds", "getOdds",
     "autoOdds", "getTeamStats", "statsQuery", "statsH2h", "saveLiveMapResult",
     "getLiveSeriesProb", "getConfig", "updateConfig", "sync", "hedge"}

NoResponse == [status |-> 0, ok |-> FALSE, isJson |-> FALSE]
NoOutcome == [kind |-> "none"]

Statuses == {200, 404, 500}

\* the Response fetch resolves with: response.ok is true for 2xx
Response(status, isJson) == [status |-> status, ok |-> status \in 200..299, isJson |-> isJson]

\* an Error object: name, message, and the own properties set on it
ErrorOf(name, message) ==
    [kind |-> "error", name |-> name, message |-> message, props |-> {},
     status |-> 0, payload |-> PNull]

MessageNullish(status, payload) ==
    LET detail == Member(payload, "detail")
        err == Member(payload, "error")
    IN  IF detail # Undefined THEN detail
        ELSE IF err # Undefined THEN err
        ELSE Str("Request failed (" \o ToString(status) \o ")")

\* line 66: payload?.detail || payload?.error || `Request failed (${response.status})`
Message(status, payload) ==
    Or(Member(payload, "detail"),
       Or(Member(payload, "error"),
          Str("Request failed (" \o ToString(status) \o ")")))

HttpErrorBare(status, payload) ==
    LET message == Message(status, payload)
    IN [kind |-> "error", name |-> "Error",
        message |-> IF message.t = "string" THEN message.s ELSE JSONstringify(message),
        props |-> {}, status |-> 0, payload |-> PNull]

\* lines 66-70: the Error thrown for a non-2xx response
HttpError(status, payload) ==
    LET message == Message(status, payload)
    IN [kind |-> "error", name |-> "Error",
        message |-> IF message.t = "string" THEN message.s ELSE JSONstringify(message),
        props |-> {"status", "payload"}, status |-> status, payload |-> payload]

\* lines 74-80: the catch block of request()
Catch(err) ==
    IF err.name = "AbortError" THEN ErrorOf("Error", TimeoutMessage) ELSE err

\* what fetch() rejects with on a network failure, and on an abort
NetworkError == ErrorOf("TypeError", "Failed to fetch")
AbortError == ErrorOf("AbortError", "The user aborted a request.")
\* what response.json() rejects with on a malformed body
BodyError == ErrorOf("SyntaxError", "Unexpected end of JSON input")

Pending == reqPc \in {"fetching", "reading"}

\* lines 65-73, once the payload is known
Finish(resp, payload) ==
    IF ~resp.ok
    THEN /\ reqPc' = "rejected"
         /\ outcome' = Catch(HttpError(resp.status, payload))
         /\ cause' = "http"
    ELSE /\ reqPc' = "resolved"
         /\ outcome' = [kind |-> "value", payload |-> payload]
         /\ cause' = ""

\* an api function is invoked: lines 47-59, up to the await of fetch
Call(fn) ==
    /\ ~Pending
    /\ calls < MaxCalls
    /\ apiFn' = fn
    /\ calls' = calls + 1
    /\ fetches' = fetches + 1
    /\ timerArmed' = TRUE
    /\ elapsed' = 0
    /\ reqPc' = "fetching"
    /\ response' = NoResponse
    /\ outcome' = NoOutcome
    /\ cause' = ""
    /\ OnlyApi

\* fetch resolves with the response headers: lines 60-63
FetchResolves(status, isJson) ==
    /\ reqPc = "fetching"
    /\ timerArmed' = FALSE
    /\ response' = Response(status, isJson)
    /\ IF isJson
       THEN /\ reqPc' = "reading"
            /\ UNCHANGED <<outcome, cause>>
       ELSE Finish(Response(status, isJson), PNull)
    /\ UNCHANGED <<apiFn, calls, fetches, elapsed>>
    /\ OnlyApi

FetchFailsRetry ==
    /\ reqPc = "fetching"
    /\ fetches' = fetches + 1
    /\ UNCHANGED <<apiFn, reqPc, calls, timerArmed, elapsed, response, outcome, cause>>
    /\ OnlyApi

\* fetch rejects with a network error: lines 74-79
FetchFails ==
    /\ reqPc = "fetching"
    /\ timerArmed' = FALSE
    /\ reqPc' = "rejected"
    /\ outcome' = Catch(NetworkError)
    /\ cause' = "network"
    /\ UNCHANGED <<apiFn, calls, fetches, elapsed, response>>
    /\ OnlyApi

\* the timer fires: controller.abort() (line 49) makes the pending fetch
\* reject with an AbortError, which the catch block turns into the timeout Error
TimerFires ==
    /\ timerArmed
    /\ elapsed >= REQUEST_TIMEOUT_MS
    /\ reqPc = "fetching"
    /\ timerArmed' = FALSE
    /\ reqPc' = "rejected"
    /\ outcome' = Catch(AbortError)
    /\ cause' = "timeout"
    /\ UNCHANGED <<apiFn, calls, fetches, elapsed, response>>
    /\ OnlyApi

\* response.json() resolves: line 63, then lines 65-73
BodyRead(payload) ==
    /\ reqPc = "reading"
    /\ Finish(response, payload)
    /\ UNCHANGED <<apiFn, calls, fetches, timerArmed, elapsed, response>>
    /\ OnlyApi

\* response.json() rejects: line 63, then lines 74-79
BodyFails ==
    /\ reqPc = "reading"
    /\ reqPc' = "rejected"
    /\ outcome' = Catch(BodyError)
    /\ cause' = "body"
    /\ UNCHANGED <<apiFn, calls, fetches, timerArmed, elapsed, response>>
    /\ OnlyApi

\* time passes while the invocation is pending; a due timer fires before
\* more time passes
Tick ==
    /\ Pending
    /\ elapsed < MaxElapsed
    /\ ~(timerArmed /\ elapsed >= REQUEST_TIMEOUT_MS)
    /\ elapsed' = IF timerArmed /\ elapsed + TickMs > REQUEST_TIMEOUT_MS
                  THEN REQUEST_TIMEOUT_MS
                  ELSE elapsed + TickMs
    /\ UNCHANGED <<apiFn, reqPc, calls, fetches, timerArmed, response, outcome, cause>>
    /\ OnlyApi

----------------------------------------------------------------------------
(* JavaScript values handed to the formatting helpers and typed into the   *)
(* forms.  A finite number is held in hundredths (1.75 is Num(175)); a     *)
(* string is held as the sequence of its characters.                       *)

JNull == [t |-> "null"]
Num(h) == [t |-> "number", h |-> h]
NaN == [t |-> "nan"]
Infinity(neg) == [t |-> "infinity", neg |-> neg]
Chars(c) == [t |-> "chars", c |-> c]

Unit == 10 * 10

DigitChars == <<"0", "1", "2", "3", "4", "5", "6", "7", "8", "9">>
IsDigit(c) == \E i \in 1..10 : DigitChars[i] = c
DigitVal(c) == (CHOOSE i \in 1..10 : DigitChars[i] = c) - 1

UpperChars == <<"A", "B", "C", "D", "E", "F", "G", "H", "I", "J", "K", "L", "M",
                "N", "O", "P", "Q", "R", "S", "T", "U", "V", "W", "X", "Y", "Z">>
LowerChars == <<"a", "b", "c", "d", "e", "f", "g", "h", "i", "j", "k", "l", "m",
                "n", "o", "p", "q", "r", "s", "t", "u", "v", "w", "x", "y", "z">>

\* String.prototype.toLowerCase
ToLowerCase(s) ==
    [i \in 1..Len(s) |->
        IF \E k \in 1..26 : UpperChars[k] = s[i]
        THEN LowerChars[CHOOSE k \in 1..26 : UpperChars[k] = s[i]]
        ELSE s[i]]

\* String.prototype.includes, for a one-character needle
Includes(s, ch) == \E i \in 1..Len(s) : s[i] = ch

IsSpace(c) == c \in {" ", "\t", "\n"}

RECURSIVE TrimStart(_)
TrimStart(s) == IF s # <<>> /\ IsSpace(Head(s)) THEN TrimStart(Tail(s)) ELSE s

RECURSIVE TrimEnd(_)
TrimEnd(s) ==
    IF s # <<>> /\ IsSpace(s[Len(s)]) THEN TrimEnd(SubSeq(s, 1, Len(s) - 1)) ELSE s

\* String.prototype.trim
Trim(s) == TrimEnd(TrimStart(s))

RECURSIVE IntVal(_)
IntVal(s) ==
    IF s = <<>> THEN 0 ELSE IntVal(SubSeq(s, 1, Len(s) - 1)) * 10 + DigitVal(s[Len(s)])

\* the digits of a natural number
RECURSIVE Digits(_)
Digits(n) ==
    IF n < 10 THEN <<DigitChars[n + 1]>>
    ELSE Digits(n \div 10) \o <<DigitChars[(n % 10) + 1]>>

\* a decimal literal: digits with at most one ".", and at least one digit
IsDecimal(s) ==
    /\ s # <<>>
    /\ \A i \in 1..Len(s) : IsDigit(s[i]) \/ s[i] = "."
    /\ Cardinality({i \in 1..Len(s) : s[i] = "."}) <= 1
    /\ \E i \in 1..Len(s) : IsDigit(s[i])

\* the value of a decimal literal, in hundredths (the typed literals of the
\* model carry at most two decimals)
DecVal(s) ==
    LET dots == {i \in 1..Len(s) : s[i] = "."}
        dot == IF dots = {} THEN Len(s) + 1 ELSE CHOOSE i \in dots : TRUE
        int == SubSeq(s, 1, dot - 1)
        frac == SubSeq(s, dot + 1, Len(s))
        f1 == IF Len(frac) >= 1 THEN DigitVal(frac[1]) ELSE 0
        f2 == IF Len(frac) >= 2 THEN DigitVal(frac[2]) ELSE 0
    IN IntVal(int) * Unit + f1 * 10 + f2

InfinityChars == <<"I", "n", "f", "i", "n", "i", "t", "y">>

\* Number(string): StringToNumber of the language
StringToNumber(c) ==
    LET t == Trim(c)
        signed == t # <<>> /\ Head(t) \in {"+", "-"}
        neg == t # <<>> /\ Head(t) = "-"
        body == IF signed THEN Tail(t) ELSE t
    IN IF t = <<>> THEN Num(0)
       ELSE IF body = InfinityChars THEN Infinity(neg)
       ELSE IF IsDecimal(body) THEN Num(IF neg THEN 0 - DecVal(body) ELSE DecVal(body))
       ELSE NaN

\* Number(v)
ToNumber(v) ==
    CASE v.t = "null" -> Num(0)
      [] v.t = "undefined" -> NaN
      [] v.t = "chars" -> StringToNumber(v.c)
      [] OTHER -> v

\* Number.isFinite
IsFinite(n) == n.t = "number"

\* String(v), for the values a bo type can be
String(v) ==
    CASE v.t = "chars" -> v.c
      [] v.t = "nan" -> <<"N", "a", "N">>
      [] v.t = "infinity" -> (IF v.neg THEN <<"-">> ELSE <<>>) \o InfinityChars
      [] v.t = "number" ->
            LET a == IF v.h < 0 THEN 0 - v.h ELSE v.h
                int == Digits(a \div Unit)
                f == a % Unit
                frac == IF f = 0 THEN <<>>
                        ELSE IF f % 10 = 0 THEN <<".", DigitChars[(f \div 10) + 1]>>
                        ELSE <<".", DigitChars[(f \div 10) + 1], DigitChars[(f % 10) + 1]>>
            IN (IF v.h < 0 THEN <<"-">> ELSE <<>>) \o int \o frac
      [] v.t = "null" -> <<"n", "u", "l", "l">>
      [] OTHER -> <<"u", "n", "d", "e", "f", "i", "n", "e", "d">>

----------------------------------------------------------------------------
(* utils/formatBo: best-of labels *)

formatBoType(boType) ==
    IF boType.t \in {"null", "undefined"} \/ boType = Chars(<<>>) THEN "Bo?"
    ELSE LET s == ToLowerCase(String(boType))
         IN IF Includes(s, "5") THEN "Bo5"
            ELSE IF Includes(s, "3") THEN "Bo3"
            ELSE "Bo?"

resolveBoTypeLoose(boType, score1, score2) ==
    LET fromApi == formatBoType(boType)
        s1 == ToNumber(score1)
        s2 == ToNumber(score2)
    IN IF fromApi # "Bo?" THEN fromApi
       ELSE IF IsFinite(s1) /\ IsFinite(s2) /\ s1.h + s2.h >= 3 * Unit THEN "Bo5"
       ELSE IF IsFinite(s1) /\ IsFinite(s2) THEN "Bo3"
       ELSE "Bo?"

resolveBoType(boType, score1, score2) ==
    LET fromApi == formatBoType(boType)
        s1 == ToNumber(score1)
        s2 == ToNumber(score2)
    IN IF fromApi # "Bo?" THEN fromApi
       ELSE IF IsFinite(s1) /\ IsFinite(s2) /\ s1.h + s2.h > 3 * Unit THEN "Bo5"
       ELSE IF IsFinite(s1) /\ IsFinite(s2) THEN "Bo3"
       ELSE "Bo?"

BO3_ORDER == << <<"2", "-", "0">>, <<"2", "-", "1">>, <<"1", "-", "2">>, <<"0", "-", "2">> >>
BO5_ORDER == << <<"3", "-", "0">>, <<"3", "-", "1">>, <<"3", "-", "2">>,
                <<"2", "-", "3">>, <<"1", "-", "3">>, <<"0", "-", "3">> >>

\* an object: its own properties in insertion order, as Object.keys lists them
Object(entries) == [t |-> "object", entries |-> entries]
Keys(o) == [i \in 1..Len(o.entries) |-> o.entries[i].key]

\* o[key]
Lookup(o, key) ==
    IF \E i \in 1..Len(o.entries) : o.entries[i].key = key
    THEN o.entries[CHOOSE i \in 1..Len(o.entries) : o.entries[i].key = key].value
    ELSE Undefined

\* !v
Falsy(v) == v.t \in {"null", "undefined", "nan"} \/ v = Num(0) \/ v = Chars(<<>>)

\* typeof v
TypeOf(v) ==
    CASE v.t \in {"null", "object"} -> "object"
      [] v.t \in {"number", "nan", "infinity"} -> "number"
      [] v.t = "chars" -> "string"
      [] OTHER -> "undefined"

\* the elements of an array
Range0(seq) == {seq[i] : i \in 1..Len(seq)}

\* Array.prototype.includes
InSeq(seq, x) == \E i \in 1..Len(seq) : seq[i] = x

\* the UTF-16 code unit of a character of a score key
Code(c) ==
    CASE c = " " -> 32
      [] c = "-" -> 45
      [] c = "." -> 46
      [] IsDigit(c) -> 48 + DigitVal(c)
      [] c = ":" -> 58
      [] OTHER -> 120

\* a < b in the order Array.prototype.sort uses without a comparator
RECURSIVE StrLess(_, _)
StrLess(a, b) ==
    IF b = <<>> THEN FALSE
    ELSE IF a = <<>> THEN TRUE
    ELSE IF Code(Head(a)) # Code(Head(b)) THEN Code(Head(a)) < Code(Head(b))
    ELSE StrLess(Tail(a), Tail(b))

RECURSIVE InsertSorted(_, _)
InsertSorted(seq, x) ==
    IF seq = <<>> THEN <<x>>
    ELSE IF StrLess(x, Head(seq)) THEN <<x>> \o seq
    ELSE <<Head(seq)>> \o InsertSorted(Tail(seq), x)

\* Array.prototype.sort()
RECURSIVE Sort(_)
Sort(seq) ==
    IF seq = <<>> THEN <<>> ELSE InsertSorted(Sort(SubSeq(seq, 1, Len(seq) - 1)), seq[Len(seq)])

\* Number(((v ?? 0) * 100).toFixed(2)): a value with two decimals times 100
\* has no decimals left to round
Probability(v) ==
    LET x == IF v.t \in {"null", "undefined"} THEN Num(0) ELSE v
    IN IF x.t = "number" THEN Num(x.h * 100) ELSE NaN

Rows(scoreProbsArg, allKeys) ==
    [i \in 1..Len(allKeys) |->
        [score |-> allKeys[i], probability |-> Probability(Lookup(scoreProbsArg, allKeys[i]))]]

RestNonNull(scoreProbsArg, order) ==
    Sort(SelectSeq(Keys(scoreProbsArg),
             LAMBDA s : ~InSeq(order, s) /\ Lookup(scoreProbsArg, s).t \notin {"null", "undefined"}))

\* line 33: the keys outside the canonical order, sorted
Rest(scoreProbsArg, order) ==
    Sort(SelectSeq(Keys(scoreProbsArg), LAMBDA s : ~InSeq(order, s)))

seriesChartDataKeepsNull(scoreProbsArg, formatArg) ==
    IF Falsy(scoreProbsArg) \/ TypeOf(scoreProbsArg) # "object" THEN <<>>
    ELSE LET order == IF formatArg = "Bo5" THEN BO5_ORDER ELSE BO3_ORDER
             ordered == SelectSeq(order, LAMBDA s : InSeq(Keys(scoreProbsArg), s))
             rest == Rest(scoreProbsArg, order)
         IN Rows(scoreProbsArg, ordered \o rest)

seriesChartData(scoreProbsArg, formatArg) ==
    IF Falsy(scoreProbsArg) \/ TypeOf(scoreProbsArg) # "object" THEN <<>>
    ELSE LET order == IF formatArg = "Bo5" THEN BO5_ORDER ELSE BO3_ORDER
             ordered == SelectSeq(order,
                            LAMBDA s : Lookup(scoreProbsArg, s).t \notin {"null", "undefined"})
             rest == Rest(scoreProbsArg, order)
         IN Rows(scoreProbsArg, ordered \o rest)

\* String.prototype.endsWith
EndsWith(s, suffix) ==
    Len(s) >= Len(suffix) /\ SubSeq(s, Len(s) - Len(suffix) + 1, Len(s)) = suffix

inferSeriesFormatFromScoreProbs(scoreProbsArg) ==
    IF Falsy(scoreProbsArg) \/ TypeOf(scoreProbsArg) # "object" THEN "Bo3"
    ELSE LET keys == Keys(scoreProbsArg)
             hasThree == \E i \in 1..Len(keys) :
                             \/ (Len(keys[i]) >= 2 /\ SubSeq(keys[i], 1, 2) = <<"3", "-">>)
                             \/ EndsWith(keys[i], <<"-", "3">>)
         IN IF hasThree THEN "Bo5" ELSE "Bo3"

----------------------------------------------------------------------------
(* MatchCard renders the label of a match *)

BoTypes ==
    {JNull, Undefined, Chars(<<>>), Chars(<<"b", "o", "3">>), Chars(<<"B", "O", "5">>),
     Chars(<<"B", "o", "1">>), Chars(<<"b", "o", "3", "/", "5">>), Num(3 * Unit),
     Num(5 * Unit), Num(Unit), NaN}

Scores ==
    {JNull, Undefined, Num(0), Num(Unit), Num(2 * Unit), Num(3 * Unit), Chars(<<"2">>),
     Chars(<<>>), Chars(<<"x">>), NaN, Infinity(FALSE)}

BoIdle ==
    /\ match_bo_type = JNull
    /\ match_score1 = JNull
    /\ match_score2 = JNull
    /\ boLabel = ""

BoInit ==
    /\ match_bo_type \in BoTypes
    /\ match_score1 \in Scores
    /\ match_score2 \in Scores
    /\ boLabel = ""

\* MatchCard line 11
RenderMatchCard ==
    /\ boLabel = ""
    /\ boLabel' = resolveBoType(match_bo_type, match_score1, match_score2)
    /\ UNCHANGED <<match_bo_type, match_score1, match_score2>>
    /\ OnlyBo

----------------------------------------------------------------------------
(* SeriesProbs charts a score distribution *)

ScoreKeys ==
    { <<"2", "-", "0">>, <<"2", "-", "1">>, <<"0", "-", "2">>, <<"3", "-", "0">>,
      <<"3", "-", "2">>, <<"1", "-", "3">>, <<"1", "-", "1">>, <<"1", "0", "-", "3">> }

ScoreValues == {JNull, Num(50)}

\* the sequences of at most n entries with distinct keys
RECURSIVE EntrySeqs(_)
EntrySeqs(n) ==
    IF n = 0 THEN {<<>>}
    ELSE LET shorter == EntrySeqs(n - 1)
         IN shorter \cup
            {Append(es, [key |-> k, value |-> v]) :
                es \in {e \in shorter : Len(e) = n - 1}, k \in ScoreKeys, v \in ScoreValues}

DistinctKeys(es) == \A i, j \in 1..Len(es) : es[i].key = es[j].key => i = j

ScoreProbsValues ==
    {JNull, Undefined, Num(0), Num(50), Chars(<<"2", "-", "0">>)}
        \cup {Object(es) : es \in {e \in EntrySeqs(MaxKeys) : DistinctKeys(e)}}

\* the boType prop: absent, recognisable, and present without a 3 or a 5
SeriesBoTypes ==
    {JNull, Undefined, Chars(<<>>), Chars(<<"b", "o", "3">>), Chars(<<"B", "O", "5">>),
     Chars(<<"B", "o", "1">>)}

ChartIdle ==
    /\ scoreProbs = JNull
    /\ seriesBoType = JNull
    /\ format = ""
    /\ chartData = <<>>
    /\ charted = FALSE

ChartInit ==
    /\ scoreProbs \in ScoreProbsValues
    /\ seriesBoType \in SeriesBoTypes
    /\ format = ""
    /\ chartData = <<>>
    /\ charted = FALSE

\* SeriesProbs line 5
SeriesFormat(boType, scoreProbsArg) ==
    IF boType.t \notin {"null", "undefined"} /\ boType # Chars(<<>>)
    THEN formatBoType(boType)
    ELSE inferSeriesFormatFromScoreProbs(scoreProbsArg)

\* SeriesProbs line 7
formatLabel == IF format = "Bo5" THEN "Bo5" ELSE "Bo3"

\* SeriesProbs lines 5-6
RenderSeriesProbs ==
    /\ ~charted
    /\ format' = SeriesFormat(seriesBoType, scoreProbs)
    /\ chartData' = seriesChartData(scoreProbs, format')
    /\ charted' = TRUE
    /\ UNCHANGED <<scoreProbs, seriesBoType>>
    /\ OnlyChart

----------------------------------------------------------------------------
----------------------------------------------------------------------------
(* The actions of the pages and panels that call the api, and what each    *)
(* does with a rejected call                                               *)

\* the rejections request() produces
RequestRejections ==
    {Catch(NetworkError), Catch(AbortError), Catch(BodyError)}
        \cup {Catch(HttpError(status, payload)) :
                status \in {s \in Statuses : s \notin 200..299}, payload \in Payloads}

\* an action: its api calls (all at once under Promise.all, else one after
\* the other), whether it runs setError('') first, and its catch handler
Site(component, action, fns, parallel, clears, handler) ==
    [component |-> component, action |-> action, fns |-> fns, parallel |-> parallel,
     clears |-> clears, handler |-> handler]

AppSites ==
    {Site("App", "useEffect", <<"getConfig">>, FALSE, FALSE, "message")}

DashboardSites ==
    {Site("DashboardPage", "loadData", <<"getEvents", "getConfig", "getMatches">>, TRUE, TRUE, "default"),
     Site("DashboardPage", "runSync", <<"sync">>, FALSE, TRUE, "message"),
     Site("DashboardPage", "runSyncAll", <<"sync">>, FALSE, TRUE, "message")}

ParlaysSites ==
    {Site("CrossMatchParlaysPage", "load", <<"getCrossMatchParlays">>, FALSE, TRUE, "default")}

MatchAnalysisSites ==
    {Site("MatchAnalysisPage", "loadAll", <<"getMatch", "getMatchAnalysis">>, TRUE, TRUE, "message")}

LiveSites ==
    {Site("LivePage", "loadLive", <<"getLiveSeriesProb">>, FALSE, TRUE, "message")}

LivePanelSites ==
    {Site("LivePanel", "submitResult", <<"saveLiveMapResult", "getLiveSeriesProb">>, FALSE, TRUE, "message")}

HedgeSites ==
    {Site("HedgeCalculator", "run", <<"hedge">>, FALSE, TRUE, "message")}

VetoSites ==
    {Site("VetoInput", "handleSave", <<"saveVeto">>, FALSE, TRUE, "message")}

OddsFormSites ==
    {Site("OddsForm", "saveStructured", <<"saveOdds">>, FALSE, TRUE, "message"),
     Site("OddsForm", "saveBatch", <<"saveOdds">>, FALSE, TRUE, "message"),
     Site("OddsForm", "autoFetch", <<"autoOdds">>, FALSE, TRUE, "autofetch")}

StatsSites ==
    {Site("StatsPage", "useEffect teams", <<"getTeams">>, FALSE, FALSE, "discard"),
     Site("StatsPage", "useEffect maps", <<"getMaps">>, FALSE, FALSE, "discard"),
     Site("StatsPage", "runNaturalQuery", <<"statsQuery">>, FALSE, TRUE, "message"),
     Site("StatsPage", "loadTeamStats", <<"getTeamStats">>, FALSE, TRUE, "message"),
     Site("StatsPage", "loadH2h", <<"statsH2h">>, FALSE, TRUE, "message")}

SettingsSites ==
    {Site("SettingsPage", "refresh", <<"getConfig">>, FALSE, FALSE, "message"),
     Site("SettingsPage", "useEffect markets", <<"getMarkets">>, FALSE, FALSE, "discard"),
     Site("SettingsPage", "save", <<"updateConfig">>, FALSE, TRUE, "message")}

Sites ==
    AppSites \cup DashboardSites \cup ParlaysSites \cup MatchAnalysisSites \cup LiveSites
        \cup LivePanelSites \cup HedgeSites \cup VetoSites \cup OddsFormSites
        \cup StatsSites \cup SettingsSites

RECURSIVE Join(_, _)
\* Array.prototype.join
Join(seq, sep) ==
    IF seq = <<>> THEN ""
    ELSE IF Len(seq) = 1 THEN seq[1]
    ELSE seq[1] \o sep \o Join(Tail(seq), sep)

SwallowError(err, prev) == prev

\* catch (err) { setError(err.message) }
SetErrorMessage(err, prev) == err.message

\* .catch((err) => setError(err?.message || 'Erro ao carregar'))
SetErrorOrDefault(err, prev) == IF err.message # "" THEN err.message ELSE "Erro ao carregar"

\* OddsForm.autoFetch: the message, then the payload's fallback steps
SetAutoFetchError(err, prev) ==
    LET fallbackSteps ==
            IF err.payload.p = "object" THEN err.payload.fallback_steps ELSE NoSteps
        fallbackText ==
            IF fallbackSteps.isArray
            THEN " | Fallback: " \o Join(fallbackSteps.steps, " | ")
            ELSE ""
    IN err.message \o fallbackText

\* .catch(() => setTeams([])), .catch(() => {}), .catch(() => setMarketOptions([]))
DiscardError(err, prev) == prev

\* the component's error state after the catch handler of the action ran
Handle(handler, err, prev) ==
    CASE handler = "message" -> SetErrorMessage(err, prev)
      [] handler = "default" -> SetErrorOrDefault(err, prev)
      [] handler = "autofetch" -> SetAutoFetchError(err, prev)
      [] OTHER -> DiscardError(err, prev)

NoFailure == [fn |-> "", handled |-> FALSE]

SiteIdle ==
    /\ site = Site("", "", <<>>, FALSE, FALSE, "discard")
    /\ sitePc = "idle"
    /\ siteError = ""
    /\ sitePending = {}
    /\ siteQueue = <<>>
    /\ siteFailure = NoFailure

\* a mounted component with its error state empty or left by an earlier action
SiteInit ==
    /\ site \in Sites
    /\ sitePc = "idle"
    /\ siteError \in {"", "Selecione um time."}
    /\ sitePending = {}
    /\ siteQueue = <<>>
    /\ siteFailure = NoFailure

\* the action starts: setError('') where the code has it, then its first call,
\* or all its calls under Promise.all
StartAction ==
    /\ sitePc = "idle"
    /\ sitePc' = "running"
    /\ siteError' = IF site.clears THEN "" ELSE siteError
    /\ sitePending' = IF site.parallel THEN Range0(site.fns) ELSE {site.fns[1]}
    /\ siteQueue' = IF site.parallel THEN <<>> ELSE Tail(site.fns)
    /\ UNCHANGED <<site, siteFailure>>
    /\ OnlySite

\* a call of the action resolves; a sequential action goes on to its next call
CallResolves(fn) ==
    /\ fn \in sitePending
    /\ siteFailure' = NoFailure
    /\ IF sitePc = "running" /\ siteQueue # <<>>
       THEN /\ sitePending' = (sitePending \ {fn}) \cup {Head(siteQueue)}
            /\ siteQueue' = Tail(siteQueue)
            /\ sitePc' = sitePc
       ELSE /\ sitePending' = sitePending \ {fn}
            /\ siteQueue' = siteQueue
            /\ sitePc' = IF sitePc = "running" /\ sitePending = {fn} THEN "done" ELSE sitePc
    /\ UNCHANGED <<site, siteError>>
    /\ OnlySite

\* a call of the action rejects: the first rejection reaches the catch
\* handler; a later rejection of the same Promise.all is dropped
CallRejects(fn, err) ==
    /\ fn \in sitePending
    /\ sitePending' = sitePending \ {fn}
    /\ siteQueue' = <<>>
    /\ IF sitePc = "running"
       THEN /\ sitePc' = "failed"
            /\ siteError' = Handle(site.handler, err, siteError)
            /\ siteFailure' = [fn |-> fn, handled |-> TRUE]
       ELSE /\ sitePc' = sitePc
            /\ siteError' = siteError
            /\ siteFailure' = [fn |-> fn, handled |-> FALSE]
    /\ UNCHANGED site
    /\ OnlySite

SiteNext ==
    \/ StartAction
    \/ \E fn \in ApiFunctions : CallResolves(fn)
    \/ \E fn \in ApiFunctions, err \in RequestRejections : CallRejects(fn, err)

----------------------------------------------------------------------------
(* The App shell, the router, and the two pages that load lists            *)

links ==
    << [to |-> "/", label |-> "Dashboard"],
       [to |-> "/parlays", label |-> "Parlays entre jogos"],
       [to |-> "/stats", label |-> "Estatísticas"],
       [to |-> "/settings", label |-> "Configurações"] >>

\* what Sidebar renders: one NavLink per link, with its label
Sidebar == [i \in 1..Len(links) |-> links[i].label]

\* what Header renders: nothing without a warning
Header(warning) ==
    IF warning = "" THEN [shown |-> FALSE, text |-> ""] ELSE [shown |-> TRUE, text |-> warning]

Paths == {"/", "/match/:id", "/parlays", "/stats", "/live/:id", "/settings"}

\* <Routes>: the element of a path
RouteElement(path) ==
    CASE path = "/" -> "DashboardPage"
      [] path = "/match/:id" -> "MatchAnalysisPage"
      [] path = "/parlays" -> "CrossMatchParlaysPage"
      [] path = "/stats" -> "StatsPage"
      [] path = "/live/:id" -> "LivePage"
      [] path = "/settings" -> "SettingsPage"
      [] OTHER -> "Navigate"

AppGated ==
    IF appConfig = JNull
    THEN [sidebar |-> <<>>, header |-> Header(configError), main |-> "Carregando"]
    ELSE [sidebar |-> Sidebar, header |-> Header(configError), main |-> RouteElement(route)]

\* what App renders
App == [sidebar |-> Sidebar, header |-> Header(configError), main |-> RouteElement(route)]

\* the backend's answers: the config, and lists that depend on the query
ConfigResponse == [t |-> "config", bankroll |-> [total |-> 1000]]
EventsOf(params) == << [id |-> 1, name |-> "Kickoff", from_year |-> params.fromYear] >>
MatchesOf(params) ==
    << [id |-> 7, status |-> params.statusFilter, from_year |-> params.fromYear] >>
ParlaysOf(params) ==
    [t |-> "parlays", date_from |-> params.dateFrom, max_legs |-> params.maxLegs]

\* a list comes as an array, as {items: [...]}, or as an object without items
Shapes == {"array", "items", "bare"}
Shaped(shape, list) ==
    [isArray |-> shape = "array", hasItems |-> shape = "items",
     list |-> IF shape = "bare" THEN <<>> ELSE list]

ServerResponse(fn, params, shape) ==
    CASE fn = "getEvents" -> Shaped(shape, EventsOf(params))
      [] fn = "getMatches" -> Shaped(shape, MatchesOf(params))
      [] fn = "getCrossMatchParlays" -> ParlaysOf(params)
      [] OTHER -> ConfigResponse

\* the rejections the pages are fed
PageRejections == {Catch(NetworkError)}

Years == {2026, 2025}
StatusFilters == {"", "ongoing"}
DateFroms == {"", "2026-02-01"}
LegOptions == {4, 2}

DashboardRequests == {"getEvents", "getConfig", "getMatches"}
ParlaysRequests == {"getCrossMatchParlays"}

\* a load: the params it was issued with, its requests in flight, the
\* responses that arrived, and the state of its promise
NewLoad(fns, params) == [params |-> params, pend |-> fns, phase |-> "pending", res |-> <<>>]

\* the state of a page when it is mounted; DashboardPage and
\* CrossMatchParlaysPage issue their first load in an effect (the state of
\* the other pages is not held in these variables)
MountState(path) ==
    [loading |-> path \in {"/", "/parlays"},
     error |-> "",
     loads |-> CASE path = "/" ->
                      <<NewLoad(DashboardRequests, [fromYear |-> 2026, statusFilter |-> ""])>>
                 [] path = "/parlays" ->
                      <<NewLoad(ParlaysRequests, [dateFrom |-> "", maxLegs |-> 4])>>
                 [] OTHER -> <<>>,
     lastEvent |-> IF path \in {"/", "/parlays"} THEN "issue" ELSE "none"]

ShellInit ==
    /\ route \in Paths
    /\ appConfig = JNull
    /\ configError = ""
    /\ configPc = "pending"
    /\ loading = MountState(route).loading
    /\ error = MountState(route).error
    /\ loads = MountState(route).loads
    /\ lastEvent = MountState(route).lastEvent
    /\ syncs = <<>>
    /\ lastSettled = 0
    /\ matches = <<>>
    /\ events = <<>>
    /\ config = JNull
    /\ fromYear = 2026
    /\ statusFilter = ""
    /\ data = JNull
    /\ dateFrom = ""
    /\ maxLegs = 4

ShellIdle ==
    /\ route = "/stats"
    /\ appConfig = JNull
    /\ configError = ""
    /\ configPc = "pending"
    /\ loading = FALSE
    /\ error = ""
    /\ loads = <<>>
    /\ lastEvent = "none"
    /\ syncs = <<>>
    /\ lastSettled = 0
    /\ matches = <<>>
    /\ events = <<>>
    /\ config = JNull
    /\ fromYear = 2026
    /\ statusFilter = ""
    /\ data = JNull
    /\ dateFrom = ""
    /\ maxLegs = 4

\* App's effect: api.getConfig().then(setConfig)
AppConfigResolves ==
    /\ configPc = "pending"
    /\ configPc' = "done"
    /\ appConfig' = ConfigResponse
    /\ UNCHANGED <<route, configError, pageVars, dashVars, parlaysVars>>
    /\ OnlyShell

\* App's effect: .catch((err) => setConfigError(err.message))
AppConfigRejects(err) ==
    /\ configPc = "pending"
    /\ configPc' = "failed"
    /\ configError' = err.message
    /\ UNCHANGED <<route, appConfig, pageVars, dashVars, parlaysVars>>
    /\ OnlyShell

\* a NavLink or a Link is followed; an unknown path is replaced by "/".
\* The page that was shown is unmounted and the new one mounted.
Navigate(path) ==
    LET to == IF RouteElement(path) = "Navigate" THEN "/" ELSE path
    IN /\ to # route
       /\ route' = to
       /\ loading' = MountState(to).loading
       /\ error' = MountState(to).error
       /\ loads' = MountState(to).loads
       /\ lastEvent' = MountState(to).lastEvent
       /\ syncs' = <<>>
       /\ lastSettled' = 0
       /\ matches' = <<>>
       /\ events' = <<>>
       /\ config' = JNull
       /\ fromYear' = 2026
       /\ statusFilter' = ""
       /\ data' = JNull
       /\ dateFrom' = ""
       /\ maxLegs' = 4
       /\ UNCHANGED <<appConfig, configError, configPc>>
       /\ OnlyShell

Remove(seq, i) == SubSeq(seq, 1, i - 1) \o SubSeq(seq, i + 1, Len(seq))

CanIssue == Len(loads) + Len(syncs) < MaxLoads

LoadingLeftAlone == loading

\* .finally(() => setLoading(false))
LoadingAfterFinally == FALSE

ListOfArrayOnly(res) == IF res.isArray THEN res.list ELSE <<>>

\* Array.isArray(res) ? res : (res?.items ?? [])
ListOf(res) == IF res.isArray THEN res.list ELSE IF res.hasItems THEN res.list ELSE <<>>

\* ---- DashboardPage

CurrentParams == [fromYear |-> fromYear, statusFilter |-> statusFilter]

\* loadData, up to Promise.all: the three requests are issued
loadData(params) ==
    /\ loading' = TRUE
    /\ error' = ""
    /\ loads' = Append(loads, NewLoad(DashboardRequests, params))
    /\ lastEvent' = "issue"

\* the year select changes; the effect runs loadData with the new filters
SetFromYear(y) ==
    /\ route = "/"
    /\ y # fromYear
    /\ CanIssue
    /\ fromYear' = y
    /\ loadData([fromYear |-> y, statusFilter |-> statusFilter])
    /\ UNCHANGED <<syncs, lastSettled, matches, events, config, statusFilter>>
    /\ UNCHANGED <<appVars, parlaysVars>>
    /\ OnlyShell

\* the status select changes; the effect runs loadData with the new filters
SetStatusFilter(st) ==
    /\ route = "/"
    /\ st # statusFilter
    /\ CanIssue
    /\ statusFilter' = st
    /\ loadData([fromYear |-> fromYear, statusFilter |-> st])
    /\ UNCHANGED <<syncs, lastSettled, matches, events, config, fromYear>>
    /\ UNCHANGED <<appVars, parlaysVars>>
    /\ OnlyShell

\* "Atualizar lista"
ClickAtualizarLista ==
    /\ route = "/"
    /\ CanIssue
    /\ loadData(CurrentParams)
    /\ UNCHANGED <<syncs, lastSettled, dashVars>>
    /\ UNCHANGED <<appVars, parlaysVars>>
    /\ OnlyShell

\* runSync and runSyncAll up to the await: the loadData they will call is the
\* one of this render, with the filters of this render
runSync(all) ==
    /\ route = "/"
    /\ CanIssue
    /\ error' = ""
    /\ syncs' = Append(syncs, [params |-> CurrentParams,
                               event_status |-> IF all THEN "all" ELSE ""])
    /\ UNCHANGED <<loading, loads, lastSettled, lastEvent, dashVars>>
    /\ UNCHANGED <<appVars, parlaysVars>>
    /\ OnlyShell

\* api.sync resolved: await loadData()
SyncResolves(i) ==
    /\ route = "/"
    /\ i \in 1..Len(syncs)
    /\ syncs' = Remove(syncs, i)
    /\ loadData(syncs[i].params)
    /\ UNCHANGED <<lastSettled, dashVars>>
    /\ UNCHANGED <<appVars, parlaysVars>>
    /\ OnlyShell

\* api.sync rejected: catch (err) { setError(err.message) }
SyncRejects(i, err) ==
    /\ route = "/"
    /\ i \in 1..Len(syncs)
    /\ syncs' = Remove(syncs, i)
    /\ error' = SetErrorMessage(err, error)
    /\ UNCHANGED <<loading, loads, lastSettled, lastEvent, dashVars>>
    /\ UNCHANGED <<appVars, parlaysVars>>
    /\ OnlyShell

\* the loads with load i settled as phase with the responses res; the
\* responses are kept for the load that settled last only
Settle(i, phase, pend, res) ==
    [j \in 1..Len(loads) |->
        IF j = i THEN [loads[j] EXCEPT !.pend = pend, !.phase = phase, !.res = res]
        ELSE [loads[j] EXCEPT !.res = <<>>]]

\* a request of load i resolves while another is in flight, or after
\* Promise.all was rejected: nothing runs yet
DashRequestResolves(i, fn) ==
    /\ route = "/"
    /\ i \in 1..Len(loads)
    /\ fn \in loads[i].pend
    /\ ~(loads[i].phase = "pending" /\ loads[i].pend = {fn})
    /\ loads' = [loads EXCEPT ![i] = [@ EXCEPT !.pend = @ \ {fn}]]
    /\ UNCHANGED <<loading, error, syncs, lastSettled, lastEvent, dashVars>>
    /\ UNCHANGED <<appVars, parlaysVars>>
    /\ OnlyShell

\* the last of the three requests of load i resolves: Promise.all resolves,
\* and .then and .finally run on the three responses
DashLoadResolves(i, fn, eventsShape, matchesShape) ==
    /\ route = "/"
    /\ i \in 1..Len(loads)
    /\ loads[i].phase = "pending"
    /\ loads[i].pend = {fn}
    /\ LET l == loads[i]
           res == [getEvents |-> ServerResponse("getEvents", l.params, eventsShape),
                   getConfig |-> ServerResponse("getConfig", l.params, "bare"),
                   getMatches |-> ServerResponse("getMatches", l.params, matchesShape)]
       IN /\ events' = ListOf(res["getEvents"])
          /\ config' = res["getConfig"]
          /\ matches' = ListOf(res["getMatches"])
          /\ loads' = Settle(i, "resolved", {}, res)
    /\ loading' = LoadingAfterFinally
    /\ lastSettled' = i
    /\ lastEvent' = "settle"
    /\ UNCHANGED <<error, syncs, fromYear, statusFilter>>
    /\ UNCHANGED <<appVars, parlaysVars>>
    /\ OnlyShell

EventsKeptAfterCatch == events

\* setEvents([]) in the catch handler
EventsAfterCatch == <<>>

\* a request of load i rejects; the first rejection rejects Promise.all and
\* .catch and .finally run, the others are dropped
DashRequestRejects(i, fn, err) ==
    /\ route = "/"
    /\ i \in 1..Len(loads)
    /\ fn \in loads[i].pend
    /\ LET l == loads[i]
       IN IF l.phase = "pending"
          THEN /\ error' = SetErrorOrDefault(err, error)
               /\ events' = EventsAfterCatch
               /\ matches' = <<>>
               /\ loading' = LoadingAfterFinally
               /\ loads' = Settle(i, "rejected", l.pend \ {fn}, <<>>)
               /\ lastSettled' = i
               /\ lastEvent' = "settle"
               /\ UNCHANGED config
          ELSE /\ loads' = [loads EXCEPT ![i] = [l EXCEPT !.pend = l.pend \ {fn}]]
               /\ UNCHANGED <<events, config, matches, loading, error, lastSettled, lastEvent>>
    /\ UNCHANGED <<syncs, fromYear, statusFilter>>
    /\ UNCHANGED <<appVars, parlaysVars>>
    /\ OnlyShell

\* ---- CrossMatchParlaysPage

\* load, up to the request
load ==
    /\ loading' = TRUE
    /\ error' = ""
    /\ loads' = Append(loads, NewLoad(ParlaysRequests,
                                      [dateFrom |-> dateFrom, maxLegs |-> maxLegs]))
    /\ lastEvent' = "issue"

\* the date and legs inputs only set state; no effect depends on them
SetDateFrom(d) ==
    /\ route = "/parlays"
    /\ d # dateFrom
    /\ dateFrom' = d
    /\ UNCHANGED <<data, maxLegs, pageVars, dashVars, appVars>>
    /\ OnlyShell

SetMaxLegs(n) ==
    /\ route = "/parlays"
    /\ n # maxLegs
    /\ maxLegs' = n
    /\ UNCHANGED <<data, dateFrom, pageVars, dashVars, appVars>>
    /\ OnlyShell

\* "Atualizar"
ClickAtualizar ==
    /\ route = "/parlays"
    /\ CanIssue
    /\ load
    /\ UNCHANGED <<syncs, lastSettled, parlaysVars, dashVars, appVars>>
    /\ OnlyShell

\* .then(setData), .finally(() => setLoading(false))
ParlaysResolves(i) ==
    /\ route = "/parlays"
    /\ i \in 1..Len(loads)
    /\ loads[i].phase = "pending"
    /\ LET l == loads[i]
           res == ServerResponse("getCrossMatchParlays", l.params, "bare")
       IN /\ data' = res
          /\ loads' = Settle(i, "resolved", {}, [getCrossMatchParlays |-> res])
    /\ loading' = FALSE
    /\ lastSettled' = i
    /\ lastEvent' = "settle"
    /\ UNCHANGED <<error, syncs, dateFrom, maxLegs, dashVars, appVars>>
    /\ OnlyShell

\* .catch((err) => setError(err?.message || 'Erro ao carregar')), .finally(...)
ParlaysRejects(i, err) ==
    /\ route = "/parlays"
    /\ i \in 1..Len(loads)
    /\ loads[i].phase = "pending"
    /\ error' = SetErrorOrDefault(err, error)
    /\ loads' = Settle(i, "rejected", {}, <<>>)
    /\ loading' = FALSE
    /\ lastSettled' = i
    /\ lastEvent' = "settle"
    /\ UNCHANGED <<syncs, parlaysVars, dashVars, appVars>>
    /\ OnlyShell

ShellNext ==
    \/ AppConfigResolves
    \/ \E err \in PageRejections : AppConfigRejects(err)
    \/ \E path \in Paths \cup {"/nowhere"} : Navigate(path)
    \/ \E y \in Years : SetFromYear(y)
    \/ \E st \in StatusFilters : SetStatusFilter(st)
    \/ ClickAtualizarLista
    \/ \E all \in BOOLEAN : runSync(all)
    \/ \E i \in 1..MaxLoads : SyncResolves(i)
    \/ \E i \in 1..MaxLoads, err \in PageRejections : SyncRejects(i, err)
    \/ \E i \in 1..MaxLoads, fn \in DashboardRequests : DashRequestResolves(i, fn)
    \/ \E i \in 1..MaxLoads, fn \in DashboardRequests, eventsShape, matchesShape \in Shapes :
            DashLoadResolves(i, fn, eventsShape, matchesShape)
    \/ \E i \in 1..MaxLoads, fn \in DashboardRequests, err \in PageRejections :
            DashRequestRejects(i, fn, err)
    \/ \E d \in DateFroms : SetDateFrom(d)
    \/ \E n \in LegOptions : SetMaxLegs(n)
    \/ ClickAtualizar
    \/ \E i \in 1..MaxLoads : ParlaysResolves(i)
    \/ \E i \in 1..MaxLoads, err \in PageRejections : ParlaysRejects(i, err)

----------------------------------------------------------------------------
(* OddsForm *)

BOOKMAKERS == <<"betano", "bet365">>

\* the characters of a string
Explode(s) == [i \in 1..Len(s) |-> SubSeq(s, i, i)]

Text(s) == Chars(Explode(s))

\* batchText.replace(/\n/g, ';')
ReplaceNewlines(s) == [i \in 1..Len(s) |-> IF s[i] = "\n" THEN ";" ELSE s[i]]

RECURSIVE Split(_, _)
\* String.prototype.split, for a one-character separator
Split(s, sep) ==
    LET hits == {i \in 1..Len(s) : s[i] = sep}
    IN IF hits = {} THEN <<s>>
       ELSE LET i == CHOOSE k \in hits : \A m \in hits : k <= m
            IN <<SubSeq(s, 1, i - 1)>> \o Split(SubSeq(s, i + 1, Len(s)), sep)

RECURSIVE SplitSpaces(_)
\* line.split(/\s+/)
SplitSpaces(s) ==
    LET hits == {i \in 1..Len(s) : IsSpace(s[i])}
    IN IF hits = {} THEN <<s>>
       ELSE LET i == CHOOSE k \in hits : \A m \in hits : k <= m
            IN <<SubSeq(s, 1, i - 1)>> \o SplitSpaces(TrimStart(SubSeq(s, i + 1, Len(s))))

RECURSIVE JoinChars(_, _)
\* Array.prototype.join, on strings held as characters
JoinChars(seq, sep) ==
    IF seq = <<>> THEN <<>>
    ELSE IF Len(seq) = 1 THEN seq[1]
    ELSE seq[1] \o sep \o JoinChars(Tail(seq), sep)

RECURSIVE Flat(_)
\* the entries pushed by the iterations of a loop, in order
Flat(seqs) == IF seqs = <<>> THEN <<>> ELSE Head(seqs) \o Flat(Tail(seqs))

\* n > 1 on numbers: false for NaN, true for Infinity
GreaterThanOne(n) == (n.t = "number" /\ n.h > Unit) \/ (n.t = "infinity" /\ ~n.neg)

Entry(bookmaker, market_type, selection, odds_value, map_number) ==
    [bookmaker |-> bookmaker, market_type |-> market_type, selection |-> selection,
     odds_value |-> odds_value, map_number |-> map_number]

\* the entry a line of the batch gives, if any
parseLine(line) ==
    LET tokens == SplitSpaces(line)
        bookmaker == ToLowerCase(tokens[1])
        market_type == ToLowerCase(tokens[2])
        selection == JoinChars(SubSeq(tokens, 3, Len(tokens) - 1), <<" ">>)
        odds_value == ToNumber(Chars(tokens[Len(tokens)]))
        mapDigits == SelectSeq(market_type, IsDigit)
    IN IF Len(tokens) < 4 THEN <<>>
       ELSE IF ~IsFinite(odds_value) \/ ~GreaterThanOne(odds_value) THEN <<>>
       ELSE << Entry(Chars(bookmaker), Chars(market_type), Chars(selection), odds_value,
                     IF mapDigits # <<>> THEN ToNumber(Chars(mapDigits)) ELSE JNull) >>

parseBatch(text) ==
    LET pieces == Split(ReplaceNewlines(text), ";")
        trimmed == [i \in 1..Len(pieces) |-> Trim(pieces[i])]
        lines == SelectSeq(trimmed, LAMBDA part : part # <<>>)
    IN Flat([i \in 1..Len(lines) |-> parseLine(lines[i])])

\* teams?.team_a?.tag || teams?.team_a?.name || 'Team A'
teamA ==
    IF teams = JNull THEN "Team A"
    ELSE IF teams.team_a.tag # "" THEN teams.team_a.tag
    ELSE IF teams.team_a.name # "" THEN teams.team_a.name
    ELSE "Team A"

teamB ==
    IF teams = JNull THEN "Team B"
    ELSE IF teams.team_b.tag # "" THEN teams.team_b.tag
    ELSE IF teams.team_b.name # "" THEN teams.team_b.name
    ELSE "Team B"

\* three placeholder maps unless the maps prop has some
mapList ==
    IF Len(maps) = 0
    THEN << [map_order |-> 1, map_name |-> "Map 1"],
            [map_order |-> 2, map_name |-> "Map 2"],
            [map_order |-> 3, map_name |-> "Map 3"] >>
    ELSE maps

\* values[key]: undefined for a field nobody typed into
Value(key) == IF key \in DOMAIN values THEN Chars(values[key]) ELSE Undefined

Push(odds_value, entry) == IF GreaterThanOne(odds_value) THEN <<entry>> ELSE <<>>

matchWinnerEntries(book) ==
    LET mwA == ToNumber(Value("match_winner_" \o book \o "_a"))
        mwB == ToNumber(Value("match_winner_" \o book \o "_b"))
    IN Push(mwA, Entry(Text(book), Text("match_winner"), Text(teamA), mwA, JNull))
        \o Push(mwB, Entry(Text(book), Text("match_winner"), Text(teamB), mwB, JNull))

mapEntries(map, book) ==
    LET n == map.map_order
        mapN == "map" \o ToString(n)
        number == Num(n * Unit)
        winnerA == ToNumber(Value(mapN \o "_winner_" \o book \o "_a"))
        winnerB == ToNumber(Value(mapN \o "_winner_" \o book \o "_b"))
        otYes == ToNumber(Value(mapN \o "_ot_" \o book))
        handicap == ToNumber(Value(mapN \o "_handicap_" \o book))
        total == ToNumber(Value(mapN \o "_total_rounds_" \o book))
        pistol == ToNumber(Value(mapN \o "_pistol_" \o book))
    IN Push(winnerA, Entry(Text(book), Text(mapN \o "_winner"), Text(teamA), winnerA, number))
        \o Push(winnerB, Entry(Text(book), Text(mapN \o "_winner"), Text(teamB), winnerB, number))
        \o Push(otYes, Entry(Text(book), Text(mapN \o "_ot"), Text("Yes"), otYes, number))
        \o Push(handicap, Entry(Text(book), Text(mapN \o "_handicap"),
                                 Text(teamA \o " -2.5"), handicap, number))
        \o Push(total, Entry(Text(book), Text(mapN \o "_total_rounds"),
                              Text("Over 24.5"), total, number))
        \o Push(pistol, Entry(Text(book), Text(mapN \o "_pistol_1h"), Text(teamA), pistol, number))

collectStructuredEntries ==
    Flat([b \in 1..Len(BOOKMAKERS) |-> matchWinnerEntries(BOOKMAKERS[b])])
        \o Flat([m \in 1..Len(mapList) |->
                    Flat([b \in 1..Len(BOOKMAKERS) |-> mapEntries(mapList[m], BOOKMAKERS[b])])])

NoRequest == [entries |-> <<>>, sent |-> FALSE]
SaveOddsBody(entries) == [entries |-> entries, sent |-> TRUE]

\* the props the form is mounted with
TeamsProps ==
    {JNull,
     [team_a |-> [tag |-> "MIBR", name |-> "MIBR Esports"],
      team_b |-> [tag |-> "", name |-> "Sentinels"]]}
MapsProps == {<<>>, << [map_order |-> 1, map_name |-> "Ascent"] >>}

\* what the model types: the inputs it types into, and the texts
InputKeys == {"match_winner_betano_a", "map1_ot_bet365", "map2_handicap_betano"}
TypedValues == {"", "1.75", "1", "abc", "Infinity"}
BatchTexts ==
    {"", "betano map1_winner MIBR 1.75", "Bet365 MAP2_OT Yes 5.00; x y 2",
     "betano match_winner Team A Infinity", "a b c 1\nbetano  map1_ot Yes 1.5 "}

\* what the two requests of run number n of loadAll resolve with
MatchResponse(n) == [of |-> "getMatch", run |-> n]
AnalysisResponse(n) == [of |-> "getMatchAnalysis", run |-> n]

PageViewErrorLast ==
    IF pageLoading THEN "loading" ELSE IF match # JNull THEN "content"
    ELSE IF pageError # "" THEN "error" ELSE "content"

\* lines 42-43: the two early returns, then the page
PageView ==
    IF pageLoading THEN "loading" ELSE IF pageError # "" THEN "error" ELSE "content"

\* the page shows its children once loaded without an error (lines 42-43)
Mounted == PageView = "content"

NoOrphans == [odds |-> 0, veto |-> 0]

MatchPageLoaded ==
    /\ pageLoading = FALSE
    /\ pageError = ""
    /\ pageLoads = {}
    /\ match = MatchResponse(0)
    /\ analysis = AnalysisResponse(0)
    /\ reloads = 0
    /\ orphans = NoOrphans

VetoFresh ==
    /\ vetoText = <<>>
    /\ vetoLoading = FALSE
    /\ vetoError = ""
    /\ vetoPc = "idle"

OddsIdle ==
    /\ teams = JNull
    /\ maps = <<>>
    /\ values = <<>>
    /\ batchText = <<>>
    /\ busy = FALSE
    /\ oddsError = ""
    /\ oddsPc = "idle"
    /\ oddsRequest = NoRequest
    /\ MatchPageLoaded
    /\ VetoFresh

\* the page after its first loadAll resolved, the forms just mounted
OddsInit ==
    /\ teams \in TeamsProps
    /\ maps \in MapsProps
    /\ values = <<>>
    /\ batchText = <<>>
    /\ busy = FALSE
    /\ oddsError = ""
    /\ oddsPc = "idle"
    /\ oddsRequest = NoRequest
    /\ MatchPageLoaded
    /\ VetoFresh

\* the calls the mounted forms are awaiting, by form
Awaited ==
    [odds |-> IF oddsPc \in {"structured", "batch", "auto"} THEN 1 ELSE 0,
     veto |-> IF vetoPc = "saving" THEN 1 ELSE 0]

\* setField: setValues((prev) => ({ ...prev, [key]: value }))
setField(key, value) ==
    /\ Mounted
    /\ values' = (key :> Explode(value)) @@ values
    /\ UNCHANGED <<teams, maps, batchText, busy, oddsError, oddsPc, oddsRequest>>
    /\ UNCHANGED <<matchPageVars, vetoVars>>
    /\ OnlyOdds

\* the textarea's onChange
SetBatchText(text) ==
    /\ Mounted
    /\ batchText' = Explode(text)
    /\ UNCHANGED <<teams, maps, values, busy, oddsError, oddsPc, oddsRequest>>
    /\ UNCHANGED <<matchPageVars, vetoVars>>
    /\ OnlyOdds

BusyLeftAlone == busy

\* setBusy(true), the first statement of the three handlers after setError('')
BusyWhileAwaiting == TRUE

\* a save handler up to its await, or through catch and finally when it throws
Save(entries, pc, message) ==
    /\ IF Len(entries) = 0
       THEN /\ oddsError' = message
            /\ busy' = FALSE
            /\ oddsPc' = "invalid"
            /\ oddsRequest' = NoRequest
       ELSE /\ oddsError' = ""
            /\ busy' = BusyWhileAwaiting
            /\ oddsPc' = pc
            /\ oddsRequest' = SaveOddsBody(entries)
    /\ UNCHANGED <<teams, maps, values, batchText>>
    /\ UNCHANGED <<matchPageVars, vetoVars>>

\* the button is disabled while busy
saveStructured ==
    /\ Mounted
    /\ ~busy
    /\ Save(collectStructuredEntries, "structured", "Preencha pelo menos uma odd valida.")
    /\ OnlyOdds

saveBatch ==
    /\ Mounted
    /\ ~busy
    /\ Save(parseBatch(batchText), "batch", "Nenhuma odd valida no batch paste.")
    /\ OnlyOdds

\* autoFetch up to its await
autoFetch ==
    /\ Mounted
    /\ ~busy
    /\ oddsError' = ""
    /\ busy' = BusyWhileAwaiting
    /\ oddsPc' = "auto"
    /\ UNCHANGED <<teams, maps, values, batchText, oddsRequest>>
    /\ UNCHANGED <<matchPageVars, vetoVars>>
    /\ OnlyOdds

\* MatchAnalysisPage.loadAll up to its await, called as onSaved: the page
\* shows 'Carregando análise...' in place of its children
loadAll ==
    /\ pageLoading' = TRUE
    /\ pageError' = ""
    /\ pageLoads' = pageLoads \cup {reloads + 1}
    /\ UNCHANGED <<match, analysis>>
    /\ reloads' = reloads + 1

\* OddsForm and VetoInput leave the tree; the next mount starts from the
\* useState initial values
Unmount ==
    /\ values' = <<>>
    /\ batchText' = <<>>
    /\ busy' = FALSE
    /\ oddsError' = ""
    /\ oddsPc' = "idle"
    /\ oddsRequest' = NoRequest
    /\ vetoText' = <<>>
    /\ vetoLoading' = FALSE
    /\ vetoError' = ""
    /\ vetoPc' = "idle"

\* the awaited call resolved: saveBatch clears the text; onSaved?.(res) is
\* loadAll; finally
OddsCallResolves ==
    /\ oddsPc \in {"structured", "batch", "auto"}
    /\ reloads < MaxReloads
    /\ loadAll
    /\ Unmount
    /\ orphans' = [orphans EXCEPT !.veto = @ + Awaited.veto]
    /\ UNCHANGED <<teams, maps>>
    /\ OnlyOdds

\* the awaited call rejected: catch, finally
OddsCallRejects(err) ==
    /\ oddsPc \in {"structured", "batch", "auto"}
    /\ oddsError' = IF oddsPc = "auto" THEN SetAutoFetchError(err, oddsError)
                    ELSE SetErrorMessage(err, oddsError)
    /\ busy' = FALSE
    /\ oddsPc' = "idle"
    /\ oddsRequest' = NoRequest
    /\ UNCHANGED <<teams, maps, values, batchText>>
    /\ UNCHANGED <<matchPageVars, vetoVars>>
    /\ OnlyOdds

\* the veto textarea's onChange
SetVetoText(text) ==
    /\ Mounted
    /\ vetoText' = Explode(text)
    /\ UNCHANGED <<teams, maps, formVars, matchPageVars, vetoLoading, vetoError, vetoPc>>
    /\ OnlyOdds

\* VetoInput.handleSave up to its await, or to its early return
handleSave ==
    /\ Mounted
    /\ ~vetoLoading
    /\ IF Trim(vetoText) = <<>>
       THEN /\ vetoError' = "Cole o veto antes de salvar."
            /\ vetoLoading' = vetoLoading
            /\ vetoPc' = "invalid"
       ELSE /\ vetoError' = ""
            /\ vetoLoading' = TRUE
            /\ vetoPc' = "saving"
    /\ UNCHANGED <<teams, maps, formVars, matchPageVars, vetoText>>
    /\ OnlyOdds

\* api.saveVeto resolved: setVetoText(''); onSaved?.(res) is loadAll; finally
VetoResolves ==
    /\ vetoPc = "saving"
    /\ reloads < MaxReloads
    /\ loadAll
    /\ Unmount
    /\ orphans' = [orphans EXCEPT !.odds = @ + Awaited.odds]
    /\ UNCHANGED <<teams, maps>>
    /\ OnlyOdds

\* api.saveVeto rejected: catch, finally
VetoRejects(err) ==
    /\ vetoPc = "saving"
    /\ vetoError' = SetErrorMessage(err, vetoError)
    /\ vetoLoading' = FALSE
    /\ vetoPc' = "idle"
    /\ UNCHANGED <<teams, maps, formVars, matchPageVars, vetoText>>
    /\ OnlyOdds

\* a call resolved whose form has left the tree: its setters do nothing,
\* onSaved?.(res) still runs loadAll
OrphanResolves(form) ==
    /\ orphans[form] > 0
    /\ reloads < MaxReloads
    /\ loadAll
    /\ Unmount
    /\ orphans' = [f \in {"odds", "veto"} |->
                      orphans[f] + Awaited[f] - (IF f = form THEN 1 ELSE 0)]
    /\ UNCHANGED <<teams, maps>>
    /\ OnlyOdds

\* a call rejected whose form has left the tree
OrphanRejects(form) ==
    /\ orphans[form] > 0
    /\ orphans' = [orphans EXCEPT ![form] = @ - 1]
    /\ UNCHANGED <<teams, maps, formVars, vetoVars, pageLoading, pageError, pageLoads, reloads>>
    /\ UNCHANGED <<match, analysis>>
    /\ OnlyOdds

\* loadAll after its await: setMatch, setAnalysis; finally
PageLoadResolves(n, teamsProp, mapsProp) ==
    /\ n \in pageLoads
    /\ pageLoads' = pageLoads \ {n}
    /\ match' = MatchResponse(n)
    /\ analysis' = AnalysisResponse(n)
    /\ teams' = teamsProp
    /\ maps' = mapsProp
    /\ pageLoading' = FALSE
    /\ UNCHANGED <<formVars, vetoVars, pageError, reloads, orphans>>
    /\ OnlyOdds

\* loadAll after its await: catch, finally; the page shows the error in
\* place of its children
PageLoadRejects(n, err) ==
    /\ n \in pageLoads
    /\ pageLoads' = pageLoads \ {n}
    /\ UNCHANGED <<match, analysis>>
    /\ pageError' = SetErrorMessage(err, pageError)
    /\ pageLoading' = FALSE
    /\ Unmount
    /\ orphans' = [f \in {"odds", "veto"} |-> orphans[f] + Awaited[f]]
    /\ UNCHANGED <<teams, maps, reloads>>
    /\ OnlyOdds

OddsNext ==
    \/ \E key \in InputKeys, value \in TypedValues : setField(key, value)
    \/ \E text \in BatchTexts : SetBatchText(text)
    \/ saveStructured
    \/ saveBatch
    \/ autoFetch
    \/ OddsCallResolves
    \/ \E err \in PageRejections : OddsCallRejects(err)
    \/ \E n \in 1..MaxReloads, teamsProp \in TeamsProps, mapsProp \in MapsProps :
            PageLoadResolves(n, teamsProp, mapsProp)
    \/ \E n \in 1..MaxReloads, err \in PageRejections : PageLoadRejects(n, err)

\* what the model types when both forms are in use
VetoTexts == {"", " ", "MIBR ban Pearl"}
FewKeys == {"match_winner_betano_a"}
FewValues == {"", "1.75"}
FewBatchTexts == {"", "betano map1_winner MIBR 1.75"}

MatchNext ==
    \/ \E key \in FewKeys, value \in FewValues : setField(key, value)
    \/ \E text \in FewBatchTexts : SetBatchText(text)
    \/ saveStructured
    \/ saveBatch
    \/ autoFetch
    \/ OddsCallResolves
    \/ \E err \in PageRejections : OddsCallRejects(err)
    \/ \E text \in VetoTexts : SetVetoText(text)
    \/ handleSave
    \/ VetoResolves
    \/ \E err \in PageRejections : VetoRejects(err)
    \/ \E form \in {"odds", "veto"} : OrphanResolves(form)
    \/ \E form \in {"odds", "veto"} : OrphanRejects(form)
    \/ \E n \in 1..MaxReloads, teamsProp \in TeamsProps, mapsProp \in MapsProps :
            PageLoadResolves(n, teamsProp, mapsProp)
    \/ \E n \in 1..MaxReloads, err \in PageRejections : PageLoadRejects(n, err)

----------------------------------------------------------------------------
(* StatsResult: formatValue.  A number of a stats payload is held as the   *)
(* ratio n/d of two integers, d > 0, or is NaN.                            *)

Ratio(n, d) == [t |-> "number", n |-> n, d |-> d]
Bool(b) == [t |-> "boolean", b |-> b]

\* Math.round(val * 100): the nearest integer, a tie going up
MathRound100(val) == (200 * val.n + val.d) \div (2 * val.d)

\* Number.isInteger
IsInteger(val) == val.t = "number" /\ val.n % val.d = 0

\* two decimal digits
TwoDigits(k) == ToString(k \div 10) \o ToString(k % 10)

\* val.toFixed(2): the nearest hundredth, a tie going away from zero
toFixed2(val) ==
    LET a == IF val.n < 0 THEN 0 - val.n ELSE val.n
        r == (200 * a + val.d) \div (2 * val.d)
    IN (IF val.n < 0 /\ r > 0 THEN "-" ELSE "") \o ToString(r \div Unit) \o "." \o TwoDigits(r % Unit)

\* `${Math.round(val * 100)}%`
Percent(val) == IF val.t = "nan" THEN "NaN%" ELSE ToString(MathRound100(val)) \o "%"

\* the en dash (U+2013) of the placeholder, written here as a hyphen
EnDash == "-"

formatValue(val, key) ==
    IF val.t \in {"null", "undefined"} THEN Str(EnDash)
    ELSE IF val.t = "boolean" THEN Str(IF val.b THEN "Sim" ELSE "Não")
    ELSE IF val.t \in {"number", "nan"}
    THEN IF key \in {"pistol_rate", "pistol_atk_rate", "pistol_def_rate"} THEN Str(Percent(val))
         ELSE IF val.t = "nan" THEN Str("NaN")
         ELSE IF val.n <= val.d /\ val.n >= 0 /\ ~IsInteger(val) THEN Str(Percent(val))
         ELSE IF IsInteger(val) THEN Str(ToString(val.n \div val.d))
         ELSE Str(toFixed2(val))
    ELSE IF val.t \in {"object", "array"} THEN JNull
    ELSE Str(val.s)

\* the values and keys formatValue is fed
RateKeys ==
    {"winrate", "ot_rate", "close_rate", "atk_rate", "def_rate", "atk_round_rate",
     "def_round_rate", "pistol_rate"}
CountKeys == {"games_played", "wins", "ot_count", "total_maps"}
FormatKeys == RateKeys \cup CountKeys \cup {"pistol_atk_rate", "undefined"}
FormatValues ==
    {JNull, Undefined, Bool(TRUE), Bool(FALSE), NaN, Str("Ascent"), Obj("{}"),
     Ratio(0, 1), Ratio(1, 1), Ratio(1, 2), Ratio(1, 8), Ratio(667, 1000), Ratio(999, 1000),
     Ratio(1, 1000), Ratio(13, 1), Ratio(3, 2), Ratio(1255, 1000), Ratio(0 - 1, 4)}

FmtIdle ==
    /\ fmtVal = JNull
    /\ fmtKey = ""
    /\ fmtOut = Undefined

FmtInit ==
    /\ fmtVal \in FormatValues
    /\ fmtKey \in FormatKeys
    /\ fmtOut = Undefined

\* formatStatLine: const v = formatValue(value, key)
FormatValue ==
    /\ fmtOut = Undefined
    /\ fmtOut' = formatValue(fmtVal, fmtKey)
    /\ UNCHANGED <<fmtVal, fmtKey>>
    /\ OnlyFmt

FmtNext == FormatValue

----------------------------------------------------------------------------
(* StatsResult: renderMarkdownLines, for one line of the markdown *)

\* String.prototype.startsWith
StartsWith(s, prefix) == Len(s) >= Len(prefix) /\ SubSeq(s, 1, Len(prefix)) = prefix

\* String.prototype.slice, for indexes inside the string (counted from 0)
Slice(s, from, to) == SubSeq(s, from + 1, to)

\* s.indexOf('**', from), counted from 0; -1 when there is none
IndexOfStars(s, from) ==
    LET hits == {i \in from..(Len(s) - 2) : s[i + 1] = "*" /\ s[i + 2] = "*"}
    IN IF hits = {} THEN 0 - 1 ELSE CHOOSE i \in hits : \A j \in hits : i <= j

Plain(text) == [strong |-> FALSE, text |-> text]
Strong(text) == [strong |-> TRUE, text |-> text]

RemainingFromDelimiter(s, i2) == Slice(s, i2, Len(s))

\* remaining = remaining.slice(i2 + 2)
RemainingAfter(s, i2) == Slice(s, i2 + 2, Len(s))

\* the lines the model renders: a prefix and a body of at most MaxBody characters
LinePrefixes == {"", "- ", "### ", "## ", "#", "-"}
BodyChars == {"*", "a", " "}
Bodies == UNION {[1..n -> BodyChars] : n \in 0..MaxBody}
MdLines == {Explode(prefix) \o body : prefix \in LinePrefixes, body \in Bodies}

MdIdle ==
    /\ mdLine = <<>>
    /\ mdKind = ""
    /\ remaining = <<>>
    /\ parts = <<>>
    /\ mdPc = "start"

MdInit ==
    /\ mdLine \in MdLines
    /\ mdKind = ""
    /\ remaining = <<>>
    /\ parts = <<>>
    /\ mdPc = "start"

\* the callback of lines.map, up to the loop
Classify ==
    /\ mdPc = "start"
    /\ IF StartsWith(mdLine, Explode("### "))
       THEN mdKind' = "h3" /\ parts' = <<Plain(Slice(mdLine, 4, Len(mdLine)))>>
                /\ remaining' = remaining /\ mdPc' = "done"
       ELSE IF StartsWith(mdLine, Explode("## "))
       THEN mdKind' = "h2" /\ parts' = <<Plain(Slice(mdLine, 3, Len(mdLine)))>>
                /\ remaining' = remaining /\ mdPc' = "done"
       ELSE IF StartsWith(mdLine, Explode("- "))
       THEN mdKind' = "li" /\ parts' = <<>>
                /\ remaining' = Slice(mdLine, 2, Len(mdLine)) /\ mdPc' = "loop"
       ELSE IF Trim(mdLine) = <<>>
       THEN mdKind' = "br" /\ parts' = <<>> /\ remaining' = remaining /\ mdPc' = "done"
       ELSE mdKind' = "p" /\ parts' = <<Plain(mdLine)>> /\ remaining' = remaining
                /\ mdPc' = "done"
    /\ UNCHANGED mdLine
    /\ OnlyMd

\* one pass of `while (remaining.includes('**'))`: another bold span
SplitBold ==
    /\ mdPc = "loop"
    /\ LET i1 == IndexOfStars(remaining, 0)
           i2 == IndexOfStars(remaining, i1 + 2)
       IN /\ i1 # 0 - 1
          /\ i2 # 0 - 1
          /\ parts' = parts \o <<Plain(Slice(remaining, 0, i1)),
                                 Strong(Slice(remaining, i1 + 2, i2))>>
          /\ remaining' = RemainingAfter(remaining, i2)
    /\ UNCHANGED <<mdLine, mdKind, mdPc>>
    /\ OnlyMd

\* the loop ends, by its condition or by the break: parts.push(remaining)
EndSplit ==
    /\ mdPc = "loop"
    /\ LET i1 == IndexOfStars(remaining, 0)
       IN i1 = 0 - 1 \/ IndexOfStars(remaining, i1 + 2) = 0 - 1
    /\ parts' = Append(parts, Plain(remaining))
    /\ mdPc' = "done"
    /\ UNCHANGED <<mdLine, mdKind, remaining>>
    /\ OnlyMd

MdNext ==
    \/ Classify
    \/ SplitBold
    \/ EndSplit

\* ---------------------------------------------------------------------
\* StatsResult: a stats payload as markdown, and the three-way render
\* ---------------------------------------------------------------------

\* a JSON array and a JSON object; a member whose value is undefined is
\* left out of the object
Arr(items) == [t |-> "array", items |-> items]
Rec(f) == [t |-> "object", f |-> f]
Field(key, v) == IF v = Undefined THEN <<>> ELSE key :> v

\* o[key]
Prop(o, key) ==
    IF o.t = "object" /\ "f" \in DOMAIN o /\ key \in DOMAIN o.f THEN o.f[key] ELSE Undefined

\* o?.[key]
OptProp(o, key) == IF o.t \in {"null", "undefined"} THEN Undefined ELSE Prop(o, key)

\* Boolean(v)
ToBoolean(v) ==
    CASE v.t \in {"null", "undefined", "nan"} -> FALSE
      [] v.t = "boolean" -> v.b
      [] v.t = "number" -> v.n # 0
      [] v.t = "string" -> v.s # ""
      [] OTHER -> TRUE

\* v == null
Nullish(v) == v.t \in {"null", "undefined"}

\* a ?? b
Coalesce(a, b) == IF Nullish(a) THEN b ELSE a

\* typeof v === 'number'
IsNumber(v) == v.t \in {"number", "nan"}

RECURSIVE Fraction(_, _)
\* the digits after the decimal point of r / d, for 0 <= r < d
Fraction(r, d) ==
    IF r = 0 THEN "" ELSE ToString((10 * r) \div d) \o Fraction((10 * r) % d, d)

RECURSIVE TemplateString(_)
\* String(v), as a template literal interpolates a value
TemplateString(v) ==
    CASE v.t = "string" -> v.s
      [] v.t = "null" -> "null"
      [] v.t = "undefined" -> "undefined"
      [] v.t = "nan" -> "NaN"
      [] v.t = "boolean" -> IF v.b THEN "true" ELSE "false"
      [] v.t = "number" ->
            LET a == IF v.n < 0 THEN 0 - v.n ELSE v.n
            IN  (IF v.n < 0 THEN "-" ELSE "") \o ToString(a \div v.d)
                \o (IF a % v.d = 0 THEN "" ELSE "." \o Fraction(a % v.d, v.d))
      [] v.t = "array" -> Join([i \in 1..Len(v.items) |-> TemplateString(v.items[i])], ",")
      [] OTHER -> "[object Object]"

LABELS ==
    [games_played |-> "Jogos disputados",
     wins |-> "Vitórias",
     losses |-> "Derrotas",
     winrate |-> "Taxa de vitória",
     ot_count |-> "Overtimes",
     ot_rate |-> "Taxa de overtime",
     pistols_won |-> "Round pistols ganhos",
     pistols_played |-> "Round pistols jogados",
     pistol_rate |-> "% de round pistols ganhos",
     pistol_atk_won |-> "Round pistols no ataque (ganhos)",
     pistol_atk_played |-> "Round pistols no ataque (jogados)",
     pistol_def_won |-> "Round pistols na defesa (ganhos)",
     pistol_def_played |-> "Round pistols na defesa (jogados)",
     atk_rate |-> "Lado ataque",
     def_rate |-> "Lado defesa",
     atk_round_rate |-> "Lado ataque",
     def_round_rate |-> "Lado defesa",
     close_maps |-> "Mapas apertados",
     close_rate |-> "Taxa de mapas apertados",
     total_maps |-> "Total de mapas",
     a_wins |-> "Vitórias time A",
     b_wins |-> "Vitórias time B",
     map_name |-> "Mapa",
     date |-> "Data",
     score |-> "Placar",
     matchup |-> "Confronto",
     is_ot |-> "Overtime",
     team |-> "Time",
     compositions |-> "Composições",
     likely_compositions |-> "Composições prováveis",
     used |-> "Usos",
     winrate_comp |-> "Taxa de vitória"]

STAT_KEYS_ORDER ==
    <<"games_played", "wins", "losses", "winrate", "ot_count", "ot_rate",
      "pistols_won", "pistols_played", "pistol_rate",
      "pistol_atk_won", "pistol_atk_played", "pistol_def_won", "pistol_def_played",
      "atk_rate", "def_rate",
      "atk_round_rate", "def_round_rate", "close_maps", "close_rate">>

label(key) == IF key \in DOMAIN LABELS THEN LABELS[key] ELSE key

formatStatLine(key, value) ==
    LET l == label(key)
        v == formatValue(value, key)
    IN  IF v = JNull THEN "" ELSE "- **" \o l \o ":** " \o v.s

\* lines.filter(Boolean)
FilterBoolean(lines) == SelectSeq(lines, LAMBDA line : line # "")

\* the five lines under the head-to-head title
HeadToHeadLines(o) ==
    <<"## Head-to-head",
      formatStatLine("total_maps", Prop(o, "total_maps")),
      formatStatLine("a_wins", Prop(o, "a_wins")),
      formatStatLine("b_wins", Prop(o, "b_wins")),
      formatStatLine("ot_count", Prop(o, "ot_count")),
      formatStatLine("ot_rate", Prop(o, "ot_rate"))>>

\* the STAT_KEYS_ORDER loop over one block
StatLines(block) ==
    LET present == SelectSeq(STAT_KEYS_ORDER, LAMBDA key : ~Nullish(Prop(block, key)))
    IN  [i \in 1..Len(present) |-> formatStatLine(present[i], Prop(block, present[i]))]

\* it.team?.tag ?? it.team?.name ?? it.team ?? '?'
ItemName(it) ==
    LET team == Prop(it, "team")
    IN  TemplateString(
            Coalesce(Coalesce(Coalesce(OptProp(team, "tag"), OptProp(team, "name")), team),
                     Str("?")))

\* the line of one composition
CompositionLine(c) ==
    LET agents == Prop(c, "agents")
        named == SelectSeq(<<Prop(c, "agent1"), Prop(c, "agent2"), Prop(c, "agent3"),
                             Prop(c, "agent4"), Prop(c, "agent5")>>, ToBoolean)
        agentsStr ==
            IF agents.t = "array"
            THEN Join([i \in 1..Len(agents.items) |-> TemplateString(agents.items[i])], ", ")
            ELSE Join([i \in 1..Len(named) |-> TemplateString(named[i])], ", ")
        used == Coalesce(Prop(c, "used"), Prop(c, "usage_count"))
        wr == IF ~Nullish(Prop(c, "winrate"))
              THEN " · " \o TemplateString(formatValue(Prop(c, "winrate"), "undefined"))
              ELSE ""
        shown == IF agentsStr # "" THEN agentsStr
                 ELSE IF ToBoolean(Prop(c, "comp_hash")) THEN TemplateString(Prop(c, "comp_hash"))
                 ELSE "?"
    IN  "- " \o shown \o " (" \o label("used") \o ": " \o TemplateString(used) \o wr \o ")"

\* the score line of one item
ScoreLine(it) ==
    "- " \o TemplateString(Coalesce(Prop(it, "date"), Str("?")))
    \o " · " \o TemplateString(Coalesce(Prop(it, "map_name"), Str("?")))
    \o " · **" \o TemplateString(Prop(it, "score")) \o "**"
    \o " · " \o TemplateString(Coalesce(Prop(it, "matchup"), Str("?")))
    \o (IF ToBoolean(Prop(it, "is_ot")) THEN " (OT)" ELSE "")

\* the title and the composition lines of one item
CompositionLines(it) ==
    LET comps == Coalesce(Prop(it, "compositions"), Arr(<<>>)).items
    IN  <<"### " \o ItemName(it)>>
        \o [i \in 1..Len(comps) |-> CompositionLine(comps[i])]
        \o (IF Len(comps) = 0 THEN <<"- Nenhuma composição encontrada.">> ELSE <<>>)

queryResultToMd(o) ==
    LET r == OptProp(o, "result")
        items == Prop(r, "items")
        isArray == items.t = "array"
    IN  IF ~ToBoolean(r) THEN ""
        ELSE IF ToBoolean(Prop(r, "error"))
        THEN "**Erro:** " \o TemplateString(Prop(r, "error")) \o "\n"
        ELSE IF IsNumber(Prop(r, "total_maps"))
        THEN Join(FilterBoolean(HeadToHeadLines(r)), "\n")
        ELSE IF isArray /\ Len(items.items) > 0 /\ Prop(items.items[1], "score") # Undefined
        THEN Join(<<"## Placares recentes">>
                  \o [i \in 1..Len(items.items) |-> ScoreLine(items.items[i])], "\n")
        ELSE IF isArray /\ \E i \in 1..Len(items.items) :
                               ~Nullish(Prop(items.items[i], "compositions"))
        THEN Join(<<"## Composições">>
                  \o Flat([i \in 1..Len(items.items) |-> CompositionLines(items.items[i])]),
                  "\n")
        ELSE IF isArray
        THEN Join(FilterBoolean(Flat([i \in 1..Len(items.items) |->
                      <<"### " \o ItemName(items.items[i])>> \o StatLines(items.items[i])])),
                  "\n")
        ELSE ""

\* Math.round((won / played) * 100)
RoundedShare(won, played) ==
    (200 * won.n * played.d + won.d * played.n) \div (2 * won.d * played.n)

\* one of the two pistol lines of a block
PistolLine(side, won, played) ==
    IF ~Nullish(played) /\ played.t = "number" /\ played.n > 0
    THEN LET pct == IF ~Nullish(won) THEN RoundedShare(won, played) ELSE 0
         IN  <<"- **Round pistols " \o side \o ":** "
               \o TemplateString(Coalesce(won, Ratio(0, 1))) \o " ganhos ("
               \o TemplateString(played) \o " jogados, " \o ToString(pct) \o "%)">>
    ELSE <<>>

pushPistolAtkDefLines(block) ==
    PistolLine("no ataque", Prop(block, "pistol_atk_won"), Prop(block, "pistol_atk_played"))
    \o PistolLine("na defesa", Prop(block, "pistol_def_won"), Prop(block, "pistol_def_played"))

\* the lines of one map of map_stats
MapLines(m) ==
    LET comps == Coalesce(Prop(m, "likely_compositions"), Arr(<<>>)).items
    IN  <<"### " \o TemplateString(Coalesce(Prop(m, "map_name"), Str("Mapa")))>>
        \o StatLines(m)
        \o pushPistolAtkDefLines(m)
        \o (IF Len(comps) > 0
            THEN <<"**Composições prováveis:**">>
                 \o [i \in 1..Len(comps) |-> CompositionLine(comps[i])]
            ELSE <<>>)
        \o <<"">>

RECURSIVE TrimString(_)
\* String.prototype.trim, on a string kept whole
TrimString(s) ==
    IF Len(s) > 0 /\ IsSpace(SubSeq(s, 1, 1)) THEN TrimString(SubSeq(s, 2, Len(s)))
    ELSE IF Len(s) > 0 /\ IsSpace(SubSeq(s, Len(s), Len(s)))
    THEN TrimString(SubSeq(s, 1, Len(s) - 1))
    ELSE s

teamStatsToMd(o) ==
    LET team == OptProp(o, "team")
        teamName ==
            Coalesce(Coalesce(Prop(team, "tag"), Prop(team, "name")),
                     Str("Time " \o TemplateString(Prop(team, "id"))))
        overall == Prop(o, "overall")
        mapStats == Coalesce(Prop(o, "map_stats"), Arr(<<>>)).items
        lines ==
            <<"## " \o TemplateString(teamName), "">>
            \o (IF ToBoolean(overall) /\ IsNumber(Prop(overall, "games_played"))
                THEN <<"### Estatísticas gerais">> \o StatLines(overall)
                     \o pushPistolAtkDefLines(overall) \o <<"">>
                ELSE <<>>)
            \o Flat([i \in 1..Len(mapStats) |-> MapLines(mapStats[i])])
    IN  IF ~ToBoolean(team) THEN "" ELSE TrimString(Join(lines, "\n"))

h2hToMd(o) ==
    IF Nullish(o) \/ ~IsNumber(Prop(o, "total_maps")) THEN ""
    ELSE Join(FilterBoolean(HeadToHeadLines(o)), "\n")

resultToMarkdownTeamFirst(o) ==
    IF Nullish(o) THEN ""
    ELSE IF ~Nullish(Prop(o, "team")) /\ ToBoolean(Prop(o, "map_stats")) THEN teamStatsToMd(o)
    ELSE IF Prop(o, "intent") # Undefined /\ Prop(o, "result") # Undefined
    THEN queryResultToMd(o)
    ELSE IF IsNumber(Prop(o, "total_maps")) THEN h2hToMd(o)
    ELSE ""

resultToMarkdown(o) ==
    IF Nullish(o) THEN ""
    ELSE IF Prop(o, "intent") # Undefined /\ Prop(o, "result") # Undefined
    THEN queryResultToMd(o)
    ELSE IF ~Nullish(Prop(o, "team")) /\ ToBoolean(Prop(o, "map_stats")) THEN teamStatsToMd(o)
    ELSE IF IsNumber(Prop(o, "total_maps")) THEN h2hToMd(o)
    ELSE ""

\* the three returns of the component
Nothing == [kind |-> "null"]
Fallback(json) == [kind |-> "fallback", json |-> json]
Markdown(text) == [kind |-> "markdown", md |-> text]
Unrendered == [kind |-> "unrendered"]

\* the payloads of the three stats endpoints, and the members they may lack
Composition == Rec(Field("agents", Arr(<<Str("Jett"), Str("Sova")>>)) @@ Field("used", Ratio(3, 1))
                   @@ Field("winrate", Ratio(2, 3)))
NamedComposition == Rec(Field("agent1", Str("Jett")) @@ Field("agent2", Str(""))
                        @@ Field("usage_count", Ratio(1, 1)))
TeamValues == {Undefined, JNull, Rec(Field("tag", Str("LOUD")) @@ Field("id", Ratio(7, 1))),
               Rec(Field("name", Str("Sentinels"))), Rec(Field("id", Ratio(7, 1)))}
Block ==
    Rec(Field("games_played", Ratio(4, 1)) @@ Field("wins", Ratio(3, 1))
        @@ Field("winrate", Ratio(3, 4)) @@ Field("pistol_atk_won", Ratio(1, 1))
        @@ Field("pistol_atk_played", Ratio(3, 1)) @@ Field("pistol_def_played", Ratio(0, 1)))
MapBlock ==
    Rec(Field("map_name", Str("Ascent")) @@ Field("winrate", Ratio(1, 2))
        @@ Field("pistol_def_played", Ratio(2, 1))
        @@ Field("likely_compositions", Arr(<<Composition, NamedComposition>>)))
MapStatsValues == {Undefined, JNull, Arr(<<>>), Arr(<<MapBlock>>), Arr(<<MapBlock, Block>>)}
TotalMapsValues == {Undefined, JNull, Ratio(0, 1), Ratio(5, 1), Str("5")}
IntentValues == {Undefined, JNull, Str("h2h")}
ScoreItem ==
    Rec(Field("date", Str("2024-03-01")) @@ Field("score", Str("13-11"))
        @@ Field("matchup", Str("LOUD vs SEN")) @@ Field("is_ot", Bool(FALSE)))
TeamItem(team) == Rec(Field("team", team) @@ Field("winrate", Ratio(3, 4)) @@ Field("wins", Ratio(3, 1)))
CompositionItem(team, comps) == Rec(Field("team", team) @@ Field("compositions", comps))
ResultValues ==
    {Undefined, JNull,
     Rec(<<>>),
     Rec(Field("error", Str("Time desconhecido"))),
     Rec(Field("total_maps", Ratio(5, 1)) @@ Field("a_wins", Ratio(3, 1))
         @@ Field("ot_rate", Ratio(1, 5))),
     Rec(Field("items", Arr(<<>>))),
     Rec(Field("items", Arr(<<ScoreItem>>))),
     Rec(Field("items", Arr(<<TeamItem(Str("LOUD")), TeamItem(Undefined)>>))),
     Rec(Field("items", Arr(<<CompositionItem(Rec(Field("tag", Str("LOUD"))), Arr(<<Composition>>)),
                              CompositionItem(Str("SEN"), Arr(<<>>))>>)))}
StatsData ==
    {JNull} \cup
    {Rec(Field("intent", intent) @@ Field("result", result) @@ Field("team", team)
         @@ Field("map_stats", mapStats) @@ Field("total_maps", totalMaps)
         @@ Field("overall", overall) @@ Field("a_wins", Ratio(2, 1))) :
        intent \in IntentValues, result \in ResultValues, team \in TeamValues,
        mapStats \in MapStatsValues, totalMaps \in TotalMapsValues,
        overall \in {Undefined, Block}}

ResultIdle == props = [data |-> JNull] /\ md = "" /\ view = Unrendered

ResultInit == props \in [data : StatsData] /\ md = "" /\ view = Unrendered

\* function StatsResult({ data })
StatsResult ==
    /\ view = Unrendered
    /\ md' = resultToMarkdown(props.data)
    /\ view' = IF ~ToBoolean(props.data) THEN Nothing
               ELSE IF md' = "" THEN Fallback(props.data)
               ELSE Markdown(md')
    /\ UNCHANGED props
    /\ OnlyResult

ResultNext == StatsResult

\* ---------------------------------------------------------------------
\* LivePanel.submitResult, under LivePage
\* ---------------------------------------------------------------------

\* an API call, and the run of submitResult that issued it (0: the page)
LiveCall(fn, by, body) == [fn |-> fn, by |-> by, body |-> body]

\* what getLiveSeriesProb resolves with: the series state the server holds
\* when it answers call number `request`
LiveResponse(request, aScore, results) ==
    [request |-> request, a_score |-> aScore, b_score |-> 0, map_results |-> results]

\* liveState?.map_results?.length
MapResultsLength(state) == IF state = JNull THEN Undefined ELSE Num(Cardinality(state.map_results) * Unit)

\* line 5: String((liveState?.map_results?.length || 0) + 1)
InitialMapNumber(state) ==
    LET length == MapResultsLength(state)
    IN  ToString((IF Falsy(length) THEN 0 ELSE length.h \div Unit) + 1)

MapTexts == {"2"}
RecordedAtMount == {{}, {Unit}}

Sides == {"a", "b"}
SeriesScores == {0, 1}
LiveRejections == {Catch(NetworkError), HttpError(422, PNull)}

\* lines 14-19: the body of the save, from the form's fields
MapResultBody == [map_number |-> ToNumber(Chars(Explode(mapNumber))), winner_side |-> winnerSide, score_a |-> 13, score_b |-> 10]

\* the calls issued before the first await
CallsAtSubmitBoth(i) ==
    <<LiveCall("saveLiveMapResult", i, MapResultBody), LiveCall("getLiveSeriesProb", i, <<>>)>>

CallsAtSubmit(i) == <<LiveCall("saveLiveMapResult", i, MapResultBody)>>

\* the call issued once the save resolved
CallsAfterSave(i) == <<LiveCall("getLiveSeriesProb", i, <<>>)>>

\* the index in liveCalls of the series-probability fetch of run i
FetchOf(i) == CHOOSE k \in 1..Len(liveCalls) : liveCalls[k].fn = "getLiveSeriesProb" /\ liveCalls[k].by = i

LiveIdle ==
    /\ liveState = JNull
    /\ mapNumber = ""
    /\ mapEdited = FALSE
    /\ recorded = {}
    /\ winnerSide = "a"
    /\ panelError = ""
    /\ submits = <<>>
    /\ liveCalls = <<>>
    /\ updates = <<>>

\* the panel is mounted once loadLive has set the page's data
LiveInit ==
    /\ recorded \in RecordedAtMount
    /\ liveState \in {LiveResponse(0, s, recorded) : s \in SeriesScores}
    /\ mapNumber = InitialMapNumber(liveState)
    /\ mapEdited = FALSE
    /\ winnerSide = "a"
    /\ panelError = ""
    /\ submits = <<>>
    /\ liveCalls = <<>>
    /\ updates = <<>>

setWinnerSide(side) ==
    /\ side # winnerSide
    /\ winnerSide' = side
    /\ UNCHANGED <<liveState, panelError, submits, liveCalls, updates>>
    /\ UNCHANGED <<mapNumber, mapEdited, recorded>>
    /\ OnlyLive

\* line 35: onChange of the map-number input
setMapNumber(text) ==
    /\ text # mapNumber
    /\ mapNumber' = text
    /\ mapEdited' = TRUE
    /\ UNCHANGED <<liveState, recorded, winnerSide, panelError, submits, liveCalls, updates>>
    /\ OnlyLive

\* lines 11-19: up to the first await
submitResult ==
    /\ Len(submits) < MaxSubmits
    /\ panelError' = ""
    /\ submits' = Append(submits, "saving")
    /\ liveCalls' = liveCalls \o CallsAtSubmit(Len(submits) + 1)
    /\ UNCHANGED <<liveState, winnerSide, updates>>
    /\ UNCHANGED <<mapNumber, mapEdited, recorded>>
    /\ OnlyLive

\* the index in liveCalls of the save of run i
SaveOf(i) == CHOOSE k \in 1..Len(liveCalls) : liveCalls[k].fn = "saveLiveMapResult" /\ liveCalls[k].by = i

\* line 20: the save resolved (the server holds the result of that map),
\* the fetch is issued
MapResultResolves(i) ==
    /\ submits[i] = "saving"
    /\ recorded' = recorded \cup {liveCalls[SaveOf(i)].body.map_number.h}
    /\ UNCHANGED <<mapNumber, mapEdited>>
    /\ submits' = [submits EXCEPT ![i] = "fetching"]
    /\ liveCalls' = liveCalls \o CallsAfterSave(i)
    /\ UNCHANGED <<liveState, winnerSide, panelError, updates>>
    /\ OnlyLive

\* lines 22-23: the save rejected
MapResultRejects(i, err) ==
    /\ submits[i] = "saving"
    /\ submits' = [submits EXCEPT ![i] = "saveFailed"]
    /\ panelError' = SetErrorMessage(err, panelError)
    /\ UNCHANGED <<liveState, winnerSide, liveCalls, updates>>
    /\ UNCHANGED <<mapNumber, mapEdited, recorded>>
    /\ OnlyLive

\* line 21: onUpdated?.(updated), which is LivePage's setData; the panel
\* stays mounted and its fields keep their state
SeriesProbResolves(i, aScore) ==
    /\ submits[i] = "fetching"
    /\ LET updated == LiveResponse(FetchOf(i), aScore, recorded)
       IN /\ updates' = Append(updates, updated)
          /\ liveState' = updated
    /\ UNCHANGED <<mapNumber, mapEdited, recorded>>
    /\ submits' = [submits EXCEPT ![i] = "done"]
    /\ UNCHANGED <<winnerSide, panelError, liveCalls>>
    /\ OnlyLive

\* lines 22-23: the fetch rejected
SeriesProbRejects(i, err) ==
    /\ submits[i] = "fetching"
    /\ submits' = [submits EXCEPT ![i] = "fetchFailed"]
    /\ panelError' = SetErrorMessage(err, panelError)
    /\ UNCHANGED <<liveState, winnerSide, liveCalls, updates>>
    /\ UNCHANGED <<mapNumber, mapEdited, recorded>>
    /\ OnlyLive

LiveNext ==
    \/ \E side \in Sides : setWinnerSide(side)
    \/ \E text \in MapTexts : setMapNumber(text)
    \/ submitResult
    \/ \E i \in 1..Len(submits) : MapResultResolves(i)
    \/ \E i \in 1..Len(submits), err \in LiveRejections : MapResultRejects(i, err)
    \/ \E i \in 1..Len(submits), aScore \in SeriesScores : SeriesProbResolves(i, aScore)
    \/ \E i \in 1..Len(submits), err \in LiveRejections : SeriesProbRejects(i, err)

\* ---------------------------------------------------------------------
\* StatsPage: the three query actions
\* ---------------------------------------------------------------------

\* a call of an action: its function, its arguments, whether it is still
\* awaited, and the earlier calls that were awaited when it was issued
StatsCall(fn, args, overlaps) == [fn |-> fn, args |-> args, pending |-> TRUE, overlaps |-> overlaps]

\* what a stats endpoint resolves with, for call number `request`
StatsResponse(request) == [request |-> request]

AwaitedStatsCalls == {k \in 1..Len(statsCalls) : statsCalls[k].pending}

Queries == {"", " ", "winrate LOUD"}
TeamIds == {"", "7"}
OtherTeamIds == {"7", "9"}

ValidationMessages ==
    {"Digite uma consulta ou escolha um exemplo abaixo.", "Selecione um time.",
     "Selecione os dois times.", "Escolha times diferentes."}

StatsIdle ==
    /\ query = <<>>
    /\ teamId = <<>>
    /\ h2hA = <<>>
    /\ h2hB = <<>>
    /\ statsResult = JNull
    /\ statsError = ""
    /\ statsCalls = <<>>
    /\ errorOf = 0

StatsInit == StatsIdle

setQuery(text) ==
    /\ text # query
    /\ query' = text
    /\ UNCHANGED <<teamId, h2hA, h2hB, statsResult, statsError, statsCalls, errorOf>>
    /\ OnlyStats

setTeamId(id) ==
    /\ id # teamId
    /\ teamId' = id
    /\ UNCHANGED <<query, h2hA, h2hB, statsResult, statsError, statsCalls, errorOf>>
    /\ OnlyStats

setH2hA(id) ==
    /\ id # h2hA
    /\ h2hA' = id
    /\ UNCHANGED <<query, teamId, h2hB, statsResult, statsError, statsCalls, errorOf>>
    /\ OnlyStats

setH2hB(id) ==
    /\ id # h2hB
    /\ h2hB' = id
    /\ UNCHANGED <<query, teamId, h2hA, statsResult, statsError, statsCalls, errorOf>>
    /\ OnlyStats

\* setError(''); setError(message); return
InvalidActionClearsResult(message) ==
    /\ statsError' = message
    /\ errorOf' = 0
    /\ statsResult' = JNull
    /\ UNCHANGED statsCalls

InvalidAction(message) ==
    /\ statsError' = message
    /\ errorOf' = 0
    /\ UNCHANGED <<statsResult, statsCalls>>

\* the result a valid action leaves before its call
ResultKept == statsResult

ResultAtCall == JNull

\* setError(''); setResult(null); api.fn(args).then(setResult).catch(...)
IssueCall(fn, args) ==
    /\ Len(statsCalls) < MaxQueries
    /\ statsError' = ""
    /\ errorOf' = 0
    /\ statsResult' = ResultAtCall
    /\ statsCalls' = Append(statsCalls, StatsCall(fn, args, AwaitedStatsCalls))

runNaturalQuery ==
    /\ IF Trim(query) = <<>>
       THEN InvalidAction("Digite uma consulta ou escolha um exemplo abaixo.")
       ELSE IssueCall("statsQuery", <<Trim(query)>>)
    /\ UNCHANGED <<query, teamId, h2hA, h2hB>>
    /\ OnlyStats

loadTeamStats ==
    /\ LET id == StringToNumber(teamId)
       IN  IF Falsy(id)
           THEN InvalidAction("Selecione um time.")
           ELSE IssueCall("getTeamStats", <<id, Undefined>>)
    /\ UNCHANGED <<query, teamId, h2hA, h2hB>>
    /\ OnlyStats

loadH2h ==
    /\ LET a == StringToNumber(h2hA)
           b == StringToNumber(h2hB)
       IN  IF Falsy(a) \/ Falsy(b)
           THEN InvalidAction("Selecione os dois times.")
           ELSE IF a = b
           THEN InvalidAction("Escolha times diferentes.")
           ELSE IssueCall("statsH2h", <<a, b, Undefined>>)
    /\ UNCHANGED <<query, teamId, h2hA, h2hB>>
    /\ OnlyStats

\* .then(setResult)
StatsCallResolves(k) ==
    /\ k \in AwaitedStatsCalls
    /\ statsCalls' = [statsCalls EXCEPT ![k].pending = FALSE]
    /\ statsResult' = StatsResponse(k)
    /\ UNCHANGED <<query, teamId, h2hA, h2hB, statsError, errorOf>>
    /\ OnlyStats

\* .catch((err) => setError(err.message))
StatsCallRejects(k, err) ==
    /\ k \in AwaitedStatsCalls
    /\ statsCalls' = [statsCalls EXCEPT ![k].pending = FALSE]
    /\ statsError' = SetErrorMessage(err, statsError)
    /\ errorOf' = k
    /\ UNCHANGED <<query, teamId, h2hA, h2hB, statsResult>>
    /\ OnlyStats

StatsNext ==
    \/ \E text \in Queries : setQuery(Explode(text))
    \/ \E id \in TeamIds : setTeamId(Explode(id))
    \/ \E id \in TeamIds : setH2hA(Explode(id))
    \/ \E id \in OtherTeamIds : setH2hB(Explode(id))
    \/ runNaturalQuery
    \/ loadTeamStats
    \/ loadH2h
    \/ \E k \in 1..Len(statsCalls) : StatsCallResolves(k)
    \/ \E k \in 1..Len(statsCalls), err \in PageRejections : StatsCallRejects(k, err)

\* ---------------------------------------------------------------------
\* SettingsPage, with App's config load
\* ---------------------------------------------------------------------

RECURSIVE Implode(_)
\* the string of a sequence of characters
Implode(cs) == IF cs = <<>> THEN "" ELSE Head(cs) \o Implode(Tail(cs))

\* path.split('.')
PathKeys(path) ==
    LET keys == Split(Explode(path), ".")
    IN  [i \in 1..Len(keys) |-> Implode(keys[i])]

RECURSIVE SetPath(_, _, _)
\* the walk of setField over a clone: cursor[key] = cursor[key] || {} down
\* to the last key, which is assigned
SetPath(obj, keys, value) ==
    IF Len(keys) = 1 THEN Rec((keys[1] :> value) @@ obj.f)
    ELSE LET child == Prop(obj, keys[1])
             cursor == IF ToBoolean(child) THEN child ELSE Rec(<<>>)
         IN  Rec((keys[1] :> SetPath(cursor, Tail(keys), value)) @@ obj.f)

\* a || b
OrDefault(a, b) == IF ToBoolean(a) THEN a ELSE b

\* Number(v), on the values of a config
NumberOf(v) ==
    CASE v.t = "string" ->
            LET n == StringToNumber(Explode(v.s))
            IN  IF n.t # "number" THEN n
                ELSE IF n.h % Unit = 0 THEN Ratio(n.h \div Unit, 1)
                ELSE Ratio(n.h, Unit)
      [] v.t = "boolean" -> Ratio(IF v.b THEN 1 ELSE 0, 1)
      [] v.t = "null" -> Ratio(0, 1)
      [] v.t = "number" -> v
      [] OTHER -> NaN

\* config?.group?.key
ConfigValue(cfg, group, key) == OptProp(OptProp(cfg, group), key)

\* lines 164-194: the body of updateConfig
Payload(cfg) ==
    LET list(group, key) == OrDefault(ConfigValue(cfg, group, key), Arr(<<>>))
        date(key) == OrDefault(ConfigValue(cfg, "data_filter", key), JNull)
        number(group, key) == NumberOf(OrDefault(ConfigValue(cfg, group, key), Ratio(0, 1)))
        flag(key) == Bool(ToBoolean(ConfigValue(cfg, "live", key)))
    IN  Rec([data_filter |->
                Rec([event_ids |-> list("data_filter", "event_ids"),
                     stage_names |-> list("data_filter", "stage_names"),
                     date_from |-> date("date_from"),
                     date_to |-> date("date_to")]),
             bankroll |->
                Rec([total |-> number("bankroll", "total"),
                     max_stake_pct |-> number("bankroll", "max_stake_pct"),
                     daily_limit |-> number("bankroll", "daily_limit"),
                     event_limit |-> number("bankroll", "event_limit"),
                     kelly_fraction |-> number("bankroll", "kelly_fraction")]),
             edge |->
                Rec([min_edge |-> number("edge", "min_edge"),
                     strong_edge |-> number("edge", "strong_edge"),
                     min_confidence |->
                        OrDefault(ConfigValue(cfg, "edge", "min_confidence"), Str("medium")),
                     min_sample_map |-> number("edge", "min_sample_map"),
                     min_sample_general |-> number("edge", "min_sample_general")]),
             markets |-> Rec([enabled_markets |-> list("markets", "enabled_markets")]),
             live |->
                Rec([betano_live |-> flag("betano_live"),
                     bet365_live |-> flag("bet365_live"),
                     show_live_opportunities |-> flag("show_live_opportunities"),
                     auto_recalc_on_map_result |-> flag("auto_recalc_on_map_result")])])

\* a run of refresh: started by the mount effect or by the 'Recarregar' button
Refresh(by) == [by |-> by, pending |-> TRUE]

\* the config the server holds
ServerConfigs ==
    {Rec([bankroll |-> Rec([total |-> Ratio(1000, 1)]),
          live |-> Rec([betano_live |-> Bool(TRUE)])])}

\* what the model edits
Edits == {<<"bankroll.total", Str("1300")>>, <<"live.betano_live", Bool(FALSE)>>}

SettingsIdle ==
    /\ parentConfig = JNull
    /\ appLoadPc = "done"
    /\ settingsConfig = JNull
    /\ saving = FALSE
    /\ settingsError = ""
    /\ success = ""
    /\ refreshes = <<>>
    /\ savePayload = JNull
    /\ edited = FALSE

\* the page just mounted: with App's config if it has arrived, else with
\* null and its own refresh under way (lines 115, 134-136)
SettingsInit ==
    /\ \/ /\ appLoadPc = "done"
          /\ parentConfig \in ServerConfigs
          /\ refreshes = <<>>
       \/ /\ appLoadPc \in {"pending", "failed"}
          /\ parentConfig = JNull
          /\ refreshes = <<Refresh("mount")>>
    /\ settingsConfig = parentConfig
    /\ saving = FALSE
    /\ settingsError = ""
    /\ success = ""
    /\ savePayload = JNull
    /\ edited = FALSE

\* App's .then(setConfig); the page's effect on [parentConfig] copies a
\* config that is not null
AppLoadResolves(cfg) ==
    /\ appLoadPc = "pending"
    /\ appLoadPc' = "done"
    /\ parentConfig' = cfg
    /\ settingsConfig' = IF ToBoolean(cfg) THEN cfg ELSE settingsConfig
    /\ UNCHANGED <<saving, settingsError, success, refreshes, savePayload, edited>>
    /\ OnlySettings

AppLoadRejects ==
    /\ appLoadPc = "pending"
    /\ appLoadPc' = "failed"
    /\ UNCHANGED <<parentConfig, settingsConfig, saving, settingsError, success, refreshes,
                   savePayload, edited>>
    /\ OnlySettings

\* SettingsPage.setField
SettingsSetField(path, value) ==
    /\ settingsConfig' = SetPath(OrDefault(settingsConfig, Rec(<<>>)), PathKeys(path), value)
    /\ edited' = TRUE
    /\ UNCHANGED <<parentConfig, appLoadPc, saving, settingsError, success, refreshes, savePayload>>
    /\ OnlySettings

\* refresh up to its await, from the 'Recarregar' button
refresh ==
    /\ Len(refreshes) < MaxRefreshes
    /\ refreshes' = Append(refreshes, Refresh("button"))
    /\ UNCHANGED <<parentConfig, appLoadPc, settingsConfig, saving, settingsError, success,
                   savePayload, edited>>
    /\ OnlySettings

\* refresh after its await: setConfig(data); onConfigUpdate?.(data)
RefreshResolves(i, cfg) ==
    /\ refreshes[i].pending
    /\ refreshes' = [refreshes EXCEPT ![i].pending = FALSE]
    /\ settingsConfig' = cfg
    /\ parentConfig' = cfg
    /\ UNCHANGED <<appLoadPc, saving, settingsError, success, savePayload, edited>>
    /\ OnlySettings


\* refresh: catch
RefreshRejects(i, err) ==
    /\ refreshes[i].pending
    /\ refreshes' = [refreshes EXCEPT ![i].pending = FALSE]
    /\ settingsError' = SetErrorMessage(err, settingsError)
    /\ UNCHANGED <<parentConfig, appLoadPc, settingsConfig, saving, success, savePayload, edited>>
    /\ OnlySettings

\* save up to its await; the button is disabled while loading
save ==
    /\ ~saving
    /\ saving' = TRUE
    /\ settingsError' = ""
    /\ success' = ""
    /\ savePayload' = Payload(settingsConfig)
    /\ UNCHANGED <<parentConfig, appLoadPc, settingsConfig, refreshes, edited>>
    /\ OnlySettings

\* save after its await: setConfig(updated); onConfigUpdate?.(updated);
\* setSuccess; finally
SaveResolves(updated) ==
    /\ savePayload # JNull
    /\ settingsConfig' = updated
    /\ parentConfig' = updated
    /\ success' = "Configurações salvas com sucesso."
    /\ saving' = FALSE
    /\ savePayload' = JNull
    /\ UNCHANGED <<appLoadPc, settingsError, refreshes, edited>>
    /\ OnlySettings

\* the config a rejected save leaves: the catch does not touch it
ConfigAfterFailedSaveReset == parentConfig

ConfigAfterFailedSave == settingsConfig

\* save: catch, finally
SaveRejects(err) ==
    /\ savePayload # JNull
    /\ settingsError' = SetErrorMessage(err, settingsError)
    /\ settingsConfig' = ConfigAfterFailedSave
    /\ saving' = FALSE
    /\ savePayload' = JNull
    /\ UNCHANGED <<parentConfig, appLoadPc, success, refreshes, edited>>
    /\ OnlySettings

SettingsNext ==
    \/ \E cfg \in ServerConfigs : AppLoadResolves(cfg)
    \/ AppLoadRejects
    \/ \E edit \in Edits : SettingsSetField(edit[1], edit[2])
    \/ refresh
    \/ \E i \in 1..Len(refreshes), cfg \in ServerConfigs : RefreshResolves(i, cfg)
    \/ \E i \in 1..Len(refreshes), err \in PageRejections : RefreshRejects(i, err)
    \/ save
    \/ \E updated \in ServerConfigs \cup {savePayload} : SaveResolves(updated)
    \/ \E err \in PageRejections : SaveRejects(err)

\* ---------------------------------------------------------------------
\* SettingsPage.setField on a heap: an object is a reference into sfHeap,
\* so that a write through one reference is seen through every other
\* ---------------------------------------------------------------------

Ref(r) == [t |-> "ref", r |-> r]

\* obj[key]
Get(obj, key) == IF key \in DOMAIN obj THEN obj[key] ELSE Undefined

Shift(v, n) == IF v.t = "ref" THEN Ref(v.r + n) ELSE v

\* a copy of the top object alone, its members shared with the original
structuredCloneShallow(h, v) == [h |-> Append(h, h[v.r]), v |-> Ref(Len(h) + 1)]

\* structuredClone(obj): a new object for every object reachable from obj
\* (every object of the heaps below is reachable from prev)
structuredClone(h, v) ==
    [h |-> h \o [i \in 1..Len(h) |-> [k \in DOMAIN h[i] |-> Shift(h[i][k], Len(h))]],
     v |-> Shift(v, Len(h))]

RECURSIVE Walk(_, _, _, _)
\* lines 148-153: the forEach over the leading keys, then the assignment
Walk(h, cursor, keys, value) ==
    IF Len(keys) = 1 THEN [h EXCEPT ![cursor] = (keys[1] :> value) @@ @]
    ELSE LET child == Get(h[cursor], keys[1])
         IN  IF ToBoolean(child) THEN Walk(h, child.r, Tail(keys), value)
             ELSE Walk(Append([h EXCEPT ![cursor] = (keys[1] :> Ref(Len(h) + 1)) @@ @], <<>>),
                       Len(h) + 1, Tail(keys), value)

\* lines 145-155: the updater passed to setConfig
Updater(h, prev, path, value) ==
    LET start == IF ToBoolean(prev) THEN [h |-> h, v |-> prev]
                 ELSE [h |-> Append(h, <<>>), v |-> Ref(Len(h) + 1)]
        cloned == structuredClone(start.h, start.v)
    IN  [h |-> Walk(cloned.h, cloned.v.r, PathKeys(path), value), v |-> cloned.v]

RECURSIVE Deref(_, _)
\* the value a reference stands for
Deref(h, v) ==
    IF v.t = "ref" THEN Rec([k \in DOMAIN h[v.r] |-> Deref(h, h[v.r][k])]) ELSE v

\* the configs the updater is fed: none, empty, the server's shape, a
\* group that is null, and a three-level object
Heaps ==
    {[h |-> <<>>, prev |-> JNull],
     [h |-> << <<>> >>, prev |-> Ref(1)],
     [h |-> << [bankroll |-> Ref(2), live |-> Ref(3)],
               [total |-> Ratio(1000, 1), daily_limit |-> Ratio(300, 1)],
               [betano_live |-> Bool(TRUE)] >>, prev |-> Ref(1)],
     [h |-> << [bankroll |-> JNull, edge |-> Ref(2)], [min_edge |-> Ratio(3, 100)] >>,
      prev |-> Ref(1)],
     [h |-> << [bankroll |-> Ref(2)], [total |-> Str("")] >>, prev |-> Ref(1)],
     [h |-> << [x |-> Ref(2)], [y |-> Ref(3)], [z |-> Str("old"), w |-> Bool(FALSE)] >>,
      prev |-> Ref(1)]}
FieldPaths == {"bankroll.total", "live.betano_live", "edge.min_edge", "x.y.z", "total"}
FieldValues == {Str("1300"), Str(""), Bool(FALSE), JNull}

SetFieldIdle ==
    /\ sfHeap = <<>>
    /\ sfPrev = JNull
    /\ sfPath = ""
    /\ sfValue = JNull
    /\ sfNext = Undefined

SetFieldInit ==
    /\ \E heap \in Heaps : sfHeap = heap.h /\ sfPrev = heap.prev
    /\ sfPath \in FieldPaths
    /\ sfValue \in FieldValues
    /\ sfNext = Undefined

\* React runs the updater on the current state
RunUpdater ==
    /\ sfNext = Undefined
    /\ LET out == Updater(sfHeap, sfPrev, sfPath, sfValue)
       IN  /\ sfHeap' = out.h
           /\ sfNext' = out.v
    /\ UNCHANGED <<sfPrev, sfPath, sfValue>>
    /\ OnlySetField

SetFieldNext == RunUpdater

\* ---------------------------------------------------------------------
\* The structured form's entries, written as batch lines and parsed back
\* ---------------------------------------------------------------------

\* the placeholder of the textarea: "bookmaker market_type selection odds"
BatchLine(entry) ==
    entry.bookmaker.c \o <<" ">> \o entry.market_type.c \o <<" ">> \o entry.selection.c
        \o <<" ">> \o String(entry.odds_value)

\* every input of the structured form, for the maps 1 to 3
StructuredKeys ==
    {"match_winner_" \o book \o side : book \in {"betano", "bet365"}, side \in {"_a", "_b"}}
        \cup {"map" \o ToString(n) \o "_winner_" \o book \o side :
                n \in 1..3, book \in {"betano", "bet365"}, side \in {"_a", "_b"}}
        \cup {"map" \o ToString(n) \o market \o book :
                n \in 1..3, market \in {"_ot_", "_handicap_", "_total_rounds_", "_pistol_"},
                book \in {"betano", "bet365"}}

StructuredOdds == {"1.75", "3", "1"}

RoundTripIdle ==
    /\ structured = <<>>
    /\ written = <<>>
    /\ parsed = <<>>
    /\ rtDone = FALSE

\* the form mounted, one input filled
RoundTripInit ==
    /\ teams \in TeamsProps
    /\ maps \in MapsProps
    /\ \E key \in StructuredKeys, odds \in StructuredOdds : values = (key :> Explode(odds))
    /\ batchText = <<>>
    /\ busy = FALSE
    /\ oddsError = ""
    /\ oddsPc = "idle"
    /\ oddsRequest = NoRequest
    /\ MatchPageLoaded
    /\ VetoFresh
    /\ RoundTripIdle

WriteAndParse ==
    /\ ~rtDone
    /\ LET entries == collectStructuredEntries
       IN  /\ structured' = entries
           /\ written' = [i \in 1..Len(entries) |-> BatchLine(entries[i])]
           /\ parsed' = [i \in 1..Len(entries) |-> parseBatch(BatchLine(entries[i]))]
    /\ rtDone' = TRUE
    /\ OnlyRoundTrip

RoundTripNext == WriteAndParse

ApiInit ==
    /\ apiFn = ""
    /\ reqPc = "idle"
    /\ calls = 0
    /\ fetches = 0
    /\ timerArmed = FALSE
    /\ elapsed = 0
    /\ response = NoResponse
    /\ outcome = NoOutcome
    /\ cause = ""

ApiNext ==
    \/ \E fn \in ApiFunctions : Call(fn)
    \/ \E status \in Statuses, isJson \in BOOLEAN : FetchResolves(status, isJson)
    \/ FetchFails
    \/ TimerFires
    \/ \E payload \in Payloads : BodyRead(payload)
    \/ BodyFails
    \/ Tick

InitApi == ApiInit /\ BoIdle /\ ChartIdle /\ SiteIdle /\ ShellIdle /\ OddsIdle /\ FmtIdle /\ MdIdle /\ ResultIdle /\ LiveIdle /\ StatsIdle /\ SettingsIdle /\ SetFieldIdle /\ RoundTripIdle

SpecApi == InitApi /\ [][ApiNext]_vars

BoNext == RenderMatchCard

InitBo == BoInit /\ ApiInit /\ ChartIdle /\ SiteIdle /\ ShellIdle /\ OddsIdle /\ FmtIdle /\ MdIdle /\ ResultIdle /\ LiveIdle /\ StatsIdle /\ SettingsIdle /\ SetFieldIdle /\ RoundTripIdle

SpecBo == InitBo /\ [][BoNext]_vars

ChartNext == RenderSeriesProbs

InitChart == ChartInit /\ ApiInit /\ BoIdle /\ SiteIdle /\ ShellIdle /\ OddsIdle /\ FmtIdle /\ MdIdle /\ ResultIdle /\ LiveIdle /\ StatsIdle /\ SettingsIdle /\ SetFieldIdle /\ RoundTripIdle

InitCalls == SiteInit /\ ApiInit /\ BoIdle /\ ChartIdle /\ ShellIdle /\ OddsIdle /\ FmtIdle /\ MdIdle /\ ResultIdle /\ LiveIdle /\ StatsIdle /\ SettingsIdle /\ SetFieldIdle /\ RoundTripIdle

SpecCalls == InitCalls /\ [][SiteNext]_vars

Init == ShellInit /\ ApiInit /\ BoIdle /\ ChartIdle /\ SiteIdle /\ OddsIdle /\ FmtIdle /\ MdIdle /\ ResultIdle /\ LiveIdle /\ StatsIdle /\ SettingsIdle /\ SetFieldIdle /\ RoundTripIdle

Next == ShellNext

Spec == Init /\ [][Next]_vars

InitOdds == OddsInit /\ ApiInit /\ BoIdle /\ ChartIdle /\ SiteIdle /\ ShellIdle /\ FmtIdle /\ MdIdle /\ ResultIdle /\ LiveIdle /\ StatsIdle /\ SettingsIdle /\ SetFieldIdle /\ RoundTripIdle

SpecOdds == InitOdds /\ [][OddsNext]_vars

SpecMatch == InitOdds /\ [][MatchNext]_vars

SpecChart == InitChart /\ [][ChartNext]_vars

InitRoundTrip == RoundTripInit /\ ApiInit /\ BoIdle /\ ChartIdle /\ SiteIdle /\ ShellIdle /\ FmtIdle /\ MdIdle /\ ResultIdle /\ LiveIdle /\ StatsIdle /\ SettingsIdle /\ SetFieldIdle

SpecRoundTrip == InitRoundTrip /\ [][RoundTripNext]_vars

InitSetField == SetFieldInit /\ ApiInit /\ BoIdle /\ ChartIdle /\ SiteIdle /\ ShellIdle /\ OddsIdle /\ FmtIdle /\ MdIdle /\ ResultIdle /\ LiveIdle /\ StatsIdle /\ SettingsIdle /\ RoundTripIdle

SpecSetField == InitSetField /\ [][SetFieldNext]_vars

InitSettings == SettingsInit /\ ApiInit /\ BoIdle /\ ChartIdle /\ SiteIdle /\ ShellIdle /\ OddsIdle /\ FmtIdle /\ MdIdle /\ ResultIdle /\ LiveIdle /\ StatsIdle /\ SetFieldIdle /\ RoundTripIdle

SpecSettings == InitSettings /\ [][SettingsNext]_vars

InitStats == StatsInit /\ ApiInit /\ BoIdle /\ ChartIdle /\ SiteIdle /\ ShellIdle /\ OddsIdle /\ FmtIdle /\ MdIdle /\ ResultIdle /\ LiveIdle /\ SettingsIdle /\ SetFieldIdle /\ RoundTripIdle

SpecStats == InitStats /\ [][StatsNext]_vars

InitLive == LiveInit /\ ApiInit /\ BoIdle /\ ChartIdle /\ SiteIdle /\ ShellIdle /\ OddsIdle /\ FmtIdle /\ MdIdle /\ ResultIdle /\ StatsIdle /\ SettingsIdle /\ SetFieldIdle /\ RoundTripIdle

SpecLive == InitLive /\ [][LiveNext]_vars

InitResult == ResultInit /\ ApiInit /\ BoIdle /\ ChartIdle /\ SiteIdle /\ ShellIdle /\ OddsIdle /\ FmtIdle /\ MdIdle /\ LiveIdle /\ StatsIdle /\ SettingsIdle /\ SetFieldIdle /\ RoundTripIdle

SpecResult == InitResult /\ [][ResultNext]_vars

InitMd == MdInit /\ ApiInit /\ BoIdle /\ ChartIdle /\ SiteIdle /\ ShellIdle /\ OddsIdle /\ FmtIdle /\ ResultIdle /\ LiveIdle /\ StatsIdle /\ SettingsIdle /\ SetFieldIdle /\ RoundTripIdle

SpecMd == InitMd /\ [][MdNext]_vars /\ WF_vars(MdNext)

InitFmt == FmtInit /\ ApiInit /\ BoIdle /\ ChartIdle /\ SiteIdle /\ ShellIdle /\ OddsIdle /\ MdIdle /\ ResultIdle /\ LiveIdle /\ StatsIdle /\ SettingsIdle /\ SetFieldIdle /\ RoundTripIdle

SpecFmt == InitFmt /\ [][FmtNext]_vars

----------------------------------------------------------------------------
(* The api client: claims *)

\* C1: every invocation of an api function issues exactly one fetch, and a
\* failed fetch (network error, non-2xx response, timeout) is surfaced as a
\* rejection without another fetch being issued for that invocation.
C1_OneFetchNoRetry ==
    /\ fetches = calls
    /\ (cause # "" => (reqPc = "rejected" /\ outcome.kind = "error"))

C1_Witness == reqPc = "rejected" /\ cause = "network" /\ calls = 2 /\ fetches = 2

\* C2: no call is pending past the 30000 ms timeout, also not while the body
\* is read after the headers arrived; a timed-out call rejects with the fixed
\* timeout Error.
C2_NoCallPendingPastTimeout ==
    /\ (Pending => elapsed <= REQUEST_TIMEOUT_MS)
    /\ (cause = "timeout" => outcome = ErrorOf("Error", TimeoutMessage))

\* C3 as claimed: every rejection of request() is an Error that carries a
\* string message and the status and payload properties, whatever its cause.
C3_UniformStatusPayload ==
    reqPc = "rejected" =>
        /\ outcome.kind = "error"
        /\ outcome.message # ""
        /\ {"status", "payload"} \subseteq outcome.props

\* C3 as amended: every rejection of request() is an Error with a non-empty
\* string message; status and payload are set exactly on the Error built for
\* a non-2xx response, and on no network, timeout or body-read rejection.
C3_ErrorShape ==
    reqPc = "rejected" =>
        /\ outcome.kind = "error"
        /\ outcome.message # ""
        /\ outcome.props = (IF cause = "http" THEN {"status", "payload"} ELSE {})
        /\ (cause = "http" => outcome.status = response.status)

C3_Witness ==
    /\ reqPc = "rejected"
    /\ cause = "http"
    /\ outcome.props = {"status", "payload"}
    /\ outcome.status = 404
    /\ outcome.message = "Match not found"

----------------------------------------------------------------------------
(* The formatting helpers: claims *)

\* C8: resolveBoType returns formatBoType(boType) when that is Bo3 or Bo5;
\* otherwise, with both scores coercing to finite numbers, Bo5 exactly when
\* score1 + score2 > 3 and Bo3 otherwise; and Bo? when a score does not coerce
\* to a finite number.  The result is one of Bo3, Bo5, Bo?.
C8_ResolveBoType ==
    boLabel # "" =>
        LET fromApi == formatBoType(match_bo_type)
            n1 == ToNumber(match_score1)
            n2 == ToNumber(match_score2)
            bothFinite == n1.t = "number" /\ n2.t = "number"
        IN /\ boLabel \in {"Bo3", "Bo5", "Bo?"}
           /\ (fromApi \in {"Bo3", "Bo5"} => boLabel = fromApi)
           /\ ((fromApi \notin {"Bo3", "Bo5"} /\ bothFinite) =>
                    boLabel = (IF n1.h + n2.h > 3 * Unit THEN "Bo5" ELSE "Bo3"))
           /\ ((fromApi \notin {"Bo3", "Bo5"} /\ ~bothFinite) => boLabel = "Bo?")

C8_Witness ==
    /\ boLabel = "Bo3"
    /\ match_bo_type = Chars(<<"B", "o", "1">>)
    /\ match_score1 = Num(2 * Unit)
    /\ match_score2 = Chars(<<>>)

ChartScores == [i \in 1..Len(chartData) |-> chartData[i].score]
Range(seq) == {seq[i] : i \in 1..Len(seq)}
Ascending(seq) == \A i, j \in 1..Len(seq) : i < j => StrLess(seq[i], seq[j])
NoDuplicates(seq) == \A i, j \in 1..Len(seq) : seq[i] = seq[j] => i = j

\* the canonical orders as the claim lists them
ClaimedOrder ==
    IF format = "Bo5"
    THEN << <<"3", "-", "0">>, <<"3", "-", "1">>, <<"3", "-", "2">>,
            <<"2", "-", "3">>, <<"1", "-", "3">>, <<"0", "-", "3">> >>
    ELSE << <<"2", "-", "0">>, <<"2", "-", "1">>, <<"1", "-", "2">>, <<"0", "-", "2">> >>

\* the chart lists `head`, then the other keys of scoreProbs in ascending order
ChartIs(head) ==
    LET tail == SubSeq(ChartScores, Len(head) + 1, Len(ChartScores))
    IN /\ Len(ChartScores) >= Len(head)
       /\ SubSeq(ChartScores, 1, Len(head)) = head
       /\ Range(tail) = Range(Keys(scoreProbs)) \ Range(ClaimedOrder)
       /\ Ascending(tail)
       /\ NoDuplicates(ChartScores)

\* C9 as claimed: the chart lists the canonical scores of the format that are
\* keys of scoreProbs, in canonical order, then every other key in ascending
\* string order, no score twice; it is empty when scoreProbs is missing or not
\* an object.
C9_CanonicalThenSorted ==
    charted =>
        IF scoreProbs.t # "object" THEN chartData = <<>>
        ELSE format \in {"Bo3", "Bo5"} =>
                ChartIs(SelectSeq(ClaimedOrder, LAMBDA s : s \in Range(Keys(scoreProbs))))

\* C9 as amended: the canonical scores listed first are those whose value in
\* scoreProbs is neither null nor undefined; a canonical key with a null
\* value is left out of the chart.
C9_NonNullCanonicalThenSorted ==
    charted =>
        IF scoreProbs.t # "object" THEN chartData = <<>>
        ELSE format \in {"Bo3", "Bo5"} =>
                ChartIs(SelectSeq(ClaimedOrder,
                            LAMBDA s : Lookup(scoreProbs, s).t \notin {"null", "undefined"}))

C9_Witness ==
    /\ charted
    /\ format = "Bo5"
    /\ scoreProbs.t = "object"
    /\ Len(scoreProbs.entries) = 3
    /\ Lookup(scoreProbs, <<"3", "-", "0">>) = JNull
    /\ ChartScores = << <<"1", "-", "3">>, <<"1", "0", "-", "3">> >>

----------------------------------------------------------------------------
(* Pages and panels: claims *)

DiscardingActions == {"useEffect teams", "useEffect maps", "useEffect markets"}

LoadingPages == {"/", "/parlays"}

InFlight == \E i \in 1..Len(loads) : loads[i].pend # {}

\* C5 (as claimed): on the Dashboard and the parlays page loading is true
\* whenever a load request of the page is in flight, and false only when
\* none is.
C5_LoadingIffInFlight == route \in LoadingPages => (loading <=> InFlight)

\* C5 (as amended): loading is true exactly from the issue of a load until
\* the next load settles, whichever load that is; while it is true a load is
\* pending.
C5_LoadingUntilNextSettle ==
    route \in LoadingPages =>
        /\ loading <=> lastEvent = "issue"
        /\ loading => \E i \in 1..Len(loads) : loads[i].phase = "pending"

C5_Witness ==
    /\ route = "/"
    /\ Len(loads) = 2
    /\ loads[1].phase = "rejected"
    /\ loads[1].pend # {}
    /\ loads[2].phase = "pending"
    /\ ~loading

\* the list a response carries: the array itself, or its items
Carried(res) == IF res.isArray \/ res.hasItems THEN res.list ELSE <<>>

EventsOfLoad(l) == IF l.phase = "resolved" THEN Carried(l.res["getEvents"]) ELSE <<>>
MatchesOfLoad(l) == IF l.phase = "resolved" THEN Carried(l.res["getMatches"]) ELSE <<>>

AllSettled ==
    /\ Len(loads) > 0
    /\ syncs = <<>>
    /\ \A i \in 1..Len(loads) : loads[i].phase # "pending"

\* C6 (as claimed): on the Dashboard, once every load has settled the lists
\* shown are the responses to a load issued with the most recent filter
\* values.
C6_ListsOfLatestFilters ==
    (route = "/" /\ AllSettled) =>
        /\ loads[lastSettled].params = CurrentParams
        /\ events = EventsOfLoad(loads[lastSettled])
        /\ matches = MatchesOfLoad(loads[lastSettled])

\* C6 (as amended): on the Dashboard the lists shown are those of the load
\* that settled last: its responses if it was fulfilled, empty lists if it was
\* rejected.
C6_ListsOfLastSettled ==
    (route = "/" /\ lastSettled # 0) =>
        /\ events = EventsOfLoad(loads[lastSettled])
        /\ matches = MatchesOfLoad(loads[lastSettled])

C6_Witness ==
    /\ route = "/"
    /\ AllSettled
    /\ Len(loads) = 2
    /\ lastSettled = 1
    /\ loads[1].params # CurrentParams
    /\ loads[2].phase = "resolved"
    /\ events # <<>>
    /\ events = EventsOfLoad(loads[1])

RoutedPages ==
    {"DashboardPage", "MatchAnalysisPage", "CrossMatchParlaysPage", "StatsPage", "LivePage",
     "SettingsPage"}

\* C7: whether the initial config load is pending, done or failed, App renders
\* the sidebar with the Dashboard entry and the page of the route; a failed
\* load only puts its message in the header warning.
C7_ShellAlwaysRenders ==
    /\ configPc \in {"pending", "done", "failed"}
    /\ \E i \in 1..Len(App.sidebar) : App.sidebar[i] = "Dashboard"
    /\ App.main \in RoutedPages
    /\ App.main = RouteElement(route)
    /\ App.header.shown <=> configPc = "failed"
    /\ App.header.text = configError

C7_Witness ==
    /\ configPc = "failed"
    /\ App.header = [shown |-> TRUE, text |-> "Failed to fetch"]
    /\ App.sidebar[1] = "Dashboard"
    /\ App.main = "CrossMatchParlaysPage"
    /\ loading

EntryFields == {"bookmaker", "market_type", "selection", "odds_value", "map_number"}

ValidEntry(entry) ==
    /\ DOMAIN entry = EntryFields
    /\ entry.odds_value.t = "number"
    /\ entry.odds_value.h > Unit
    /\ entry.map_number.t \in {"null", "number"}

\* C10: every body OddsForm sends through api.saveOdds has at least one entry,
\* each with exactly the five fields of the odds schema, a finite odds_value
\* above 1 and a map_number that is null or a number; when no valid entry can
\* be built nothing is sent and an error message is set.
C10_SavedOddsAreValid ==
    /\ oddsRequest.sent =>
            /\ Len(oddsRequest.entries) >= 1
            /\ \A i \in 1..Len(oddsRequest.entries) : ValidEntry(oddsRequest.entries[i])
    /\ oddsPc = "invalid" => (~oddsRequest.sent /\ oddsError # "")

\* C13: when the bo type is missing or unrecognised and the match has no
\* score yet (score1 and score2 null, shown as 'sem placar'), the label is
\* 'Bo?' and not a definite format.
C13_NoScoreNoFormat ==
    (boLabel # "" /\ formatBoType(match_bo_type) = "Bo?"
        /\ match_score1 = JNull /\ match_score2 = JNull) => boLabel = "Bo?"

----------------------------------------------------------------------------
(* StatsResult: claims *)

\* the integer nearest to 100 * n / d, a tie going up
Nearest(val) ==
    CHOOSE k \in 0..Unit : (2 * k - 1) * val.d <= 200 * val.n /\ 200 * val.n < (2 * k + 1) * val.d

\* C14: a number v with 0 <= v <= 1 under a rate key is rendered as
\* round(v * 100) followed by '%', v = 0 and v = 1 included; an integer count
\* is rendered as the plain integer.
C14_RatesArePercentages ==
    (fmtOut # Undefined /\ fmtVal.t = "number") =>
        /\ (fmtKey \in RateKeys /\ 0 <= fmtVal.n /\ fmtVal.n <= fmtVal.d) =>
                fmtOut = Str(ToString(Nearest(fmtVal)) \o "%")
        /\ (fmtKey \in CountKeys /\ fmtVal.n % fmtVal.d = 0) =>
                fmtOut = Str(ToString(fmtVal.n \div fmtVal.d))

RECURSIVE TextOf(_)
\* the text of the parts, one after the other
TextOf(ps) == IF ps = <<>> THEN <<>> ELSE Head(ps).text \o TextOf(Tail(ps))

RECURSIVE Marked(_)
\* the parts written back as markdown, the bold ones between '**'
Marked(ps) ==
    IF ps = <<>> THEN <<>>
    ELSE (IF Head(ps).strong THEN <<"*", "*">> \o Head(ps).text \o <<"*", "*">>
          ELSE Head(ps).text) \o Marked(Tail(ps))

StarsAt(s, i) == i + 1 <= Len(s) /\ s[i] = "*" /\ s[i + 1] = "*"
HasStars(s) == \E i \in 1..Len(s) : StarsAt(s, i)
HasPair(s) == \E i, j \in 1..Len(s) : StarsAt(s, i) /\ StarsAt(s, j) /\ j >= i + 2

BoldCount == Cardinality({i \in 1..Len(parts) : parts[i].strong})

\* what a finished list item must be: the parts are the content after '- '
\* cut at its matched pairs of '**' (no part before the last holds a '**',
\* the last one holds no pair), so that their text is the content without
\* the matched delimiters, an unmatched '**' staying in the last part
ListItemSplit ==
    LET rest == SubSeq(mdLine, 3, Len(mdLine))
    IN /\ parts # <<>>
       /\ Marked(parts) = rest
       /\ \A i \in 1..(Len(parts) - 1) : ~HasStars(parts[i].text) /\ (parts[i].strong <=> i % 2 = 0)
       /\ ~parts[Len(parts)].strong
       /\ ~HasPair(parts[Len(parts)].text)
       /\ Len(TextOf(parts)) = Len(rest) - 4 * BoldCount

ClaimedFormat(o) ==
    IF Prop(o, "intent") # Undefined /\ Prop(o, "result") # Undefined THEN "query"
    ELSE IF ~Nullish(Prop(o, "team")) /\ ~Nullish(Prop(o, "map_stats")) THEN "team"
    ELSE IF IsNumber(Prop(o, "total_maps")) THEN "h2h"
    ELSE "none"

ClaimedMarkdown(o) ==
    CASE ClaimedFormat(o) = "query" -> queryResultToMd(o)
      [] ClaimedFormat(o) = "team" -> teamStatsToMd(o)
      [] ClaimedFormat(o) = "h2h" -> h2hToMd(o)
      [] OTHER -> ""

C11_RenderByFormat ==
    view # Unrendered =>
        /\ md = ClaimedMarkdown(props.data)
        /\ view = IF props.data = JNull THEN Nothing
                  ELSE IF md = "" THEN Fallback(props.data)
                  ELSE Markdown(md)

C11_Witness ==
    /\ view = Fallback(props.data)
    /\ ClaimedFormat(props.data) = "query"
    /\ ~Nullish(Prop(props.data, "team"))
    /\ ~Nullish(Prop(props.data, "map_stats"))


\* ---------------------------------------------------------------------
\* C12: submitResult issues getLiveSeriesProb only after its
\* saveLiveMapResult succeeded and calls onUpdated only with the response
\* of that fetch; when the save fails there is no fetch and no onUpdated,
\* the live state stays as it was and the error message is set.
\* ---------------------------------------------------------------------
SaveSucceeded(i) == submits[i] \in {"fetching", "fetchFailed", "done"}

FetchesBy(i) == {k \in 1..Len(liveCalls) : liveCalls[k].fn = "getLiveSeriesProb" /\ liveCalls[k].by = i}

SavesBy(i) == {k \in 1..Len(liveCalls) : liveCalls[k].fn = "saveLiveMapResult" /\ liveCalls[k].by = i}

FetchOnlyAfterSave ==
    \A k \in 1..Len(liveCalls) :
        liveCalls[k].fn = "getLiveSeriesProb" =>
            /\ SaveSucceeded(liveCalls[k].by)
            /\ \E j \in 1..(k - 1) : j \in SavesBy(liveCalls[k].by)

UpdatedOnlyWithFetched ==
    \A u \in 1..Len(updates) :
        /\ updates[u].request \in 1..Len(liveCalls)
        /\ liveCalls[updates[u].request].fn = "getLiveSeriesProb"
        /\ submits[liveCalls[updates[u].request].by] = "done"

FailedSaveStopsTheRun ==
    \A i \in 1..Len(submits) :
        submits[i] = "saveFailed" =>
            /\ FetchesBy(i) = {}
            /\ \A u \in 1..Len(updates) : updates[u].request \notin FetchesBy(i)

FailedSaveStep ==
    \A i \in 1..Len(submits) :
        submits[i] = "saving" /\ submits'[i] = "saveFailed" =>
            /\ liveState' = liveState
            /\ updates' = updates
            /\ liveCalls' = liveCalls
            /\ panelError' # ""

C12_FetchFollowsSave ==
    /\ [](FetchOnlyAfterSave /\ UpdatedOnlyWithFetched /\ FailedSaveStopsTheRun)
    /\ [][FailedSaveStep]_vars

C12_Witness ==
    /\ Len(submits) = 2
    /\ submits[1] = "saveFailed"
    /\ submits[2] = "done"
    /\ liveState = updates[1]
    /\ panelError # ""


\* ---------------------------------------------------------------------
\* C16: in VetoInput and in the OddsForm batch save the typed text is
\* cleared exactly when the save request succeeded (a validation error or
\* a failed request leaves it), and no save or auto-fetch action changes
\* the structured odds field values.
\* ---------------------------------------------------------------------
BatchSaveSucceeded == oddsPc = "batch" /\ OddsCallResolves

C16_TextClearedOnlyBySave ==
    [][/\ vetoText' # vetoText => (VetoResolves \/ \E text \in VetoTexts : SetVetoText(text))
       /\ batchText' # batchText =>
              (BatchSaveSucceeded \/ \E text \in BatchTexts : SetBatchText(text))
       /\ VetoResolves => vetoText' = <<>>
       /\ BatchSaveSucceeded => batchText' = <<>>
       /\ values' # values => \E key \in InputKeys, value \in TypedValues : setField(key, value)]_vars


\* ---------------------------------------------------------------------
\* C17: on the stats page an action on invalid input (a blank query, no
\* team, a missing team or the same team twice) sets a validation message,
\* issues no call and leaves the result; a valid action clears the error
\* and the result and issues exactly one call.
\* ---------------------------------------------------------------------
BlankQuery == Trim(query) = <<>>
NoTeam == Falsy(StringToNumber(teamId))
BadPair ==
    \/ Falsy(StringToNumber(h2hA))
    \/ Falsy(StringToNumber(h2hB))
    \/ StringToNumber(h2hA) = StringToNumber(h2hB)

Rejected == statsError' \in ValidationMessages /\ statsCalls' = statsCalls /\ statsResult' = statsResult

Issued(fn) ==
    /\ statsError' = ""
    /\ statsResult' = JNull
    /\ Len(statsCalls') = Len(statsCalls) + 1
    /\ SubSeq(statsCalls', 1, Len(statsCalls)) = statsCalls
    /\ statsCalls'[Len(statsCalls')].fn = fn

C17_InvalidActionsIssueNothing ==
    [][/\ runNaturalQuery => IF BlankQuery THEN Rejected ELSE Issued("statsQuery")
       /\ loadTeamStats => IF NoTeam THEN Rejected ELSE Issued("getTeamStats")
       /\ loadH2h => IF BadPair THEN Rejected ELSE Issued("statsH2h")]_vars

C17_Witness ==
    /\ statsError = "Escolha times diferentes."
    /\ statsResult # JNull
    /\ Len(statsCalls) = 1

\* ---------------------------------------------------------------------
\* C18: on the stats page a non-empty error and a non-null result are
\* never shown together.  What holds: they are shown together only when
\* the error is a validation message raised over a shown result, or when
\* the two are the outcomes of two calls that were awaited together.
\* ---------------------------------------------------------------------
BothShown == statsError # "" /\ statsResult # JNull

AwaitedTogether(j, k) ==
    \/ j \in statsCalls[k].overlaps
    \/ k \in statsCalls[j].overlaps

C19_NeverSuccessAndError == ~(success # "" /\ settingsError # "")

\* ---------------------------------------------------------------------
\* C20: once a field was edited, the local settings change only through
\* further edits, a successful save, or a reload the user asked for; a
\* later response of App's load or of the page's own first refresh does
\* not replace the edits.  What holds: the local settings change only
\* through an edit, a successful save, the response of any refresh or the
\* arrival of App's config, and such a response replaces the edits.
\* ---------------------------------------------------------------------
EditStep == \E edit \in Edits : SettingsSetField(edit[1], edit[2])

SaveSucceededStep == \E updated \in ServerConfigs \cup {savePayload} : SaveResolves(updated)

RefreshRespondedStep(starters) ==
    \E i \in 1..Len(refreshes), cfg \in ServerConfigs :
        refreshes[i].by \in starters /\ RefreshResolves(i, cfg)

AppConfigArrivedStep == \E cfg \in ServerConfigs : AppLoadResolves(cfg)

C20_EditsSurviveLateResponses ==
    [][(edited /\ settingsConfig' # settingsConfig) =>
            (EditStep \/ SaveSucceededStep \/ RefreshRespondedStep({"button"}))]_vars

C20_ConfigChangesByEditOrResponse ==
    [][settingsConfig' # settingsConfig =>
            \/ EditStep
            \/ SaveSucceededStep
            \/ RefreshRespondedStep({"button", "mount"})
            \/ AppConfigArrivedStep]_vars

C20_Witness ==
    /\ edited
    /\ settingsConfig \in ServerConfigs
    /\ Len(refreshes) = 1
    /\ refreshes[1] = [by |-> "mount", pending |-> FALSE]
    /\ appLoadPc = "pending"
    /\ savePayload = JNull
    /\ success = ""


\* ---------------------------------------------------------------------
\* C21: setField(path, value) returns a config whose value at the dotted
\* path is value and which equals the previous config at every other
\* path, creating the intermediate objects that are missing, and it does
\* not mutate the previous config object.
\* ---------------------------------------------------------------------
RECURSIVE At(_, _)
\* the value of a config at a sequence of keys
At(cfg, keys) ==
    IF keys = <<>> THEN cfg
    ELSE IF cfg.t = "object" THEN At(Prop(cfg, Head(keys)), Tail(keys))
    ELSE Undefined

IsPrefix(p, q) == Len(p) <= Len(q) /\ SubSeq(q, 1, Len(p)) = p

PathUniverse ==
    LET names == {"bankroll", "live", "edge", "total", "daily_limit", "betano_live", "min_edge",
                  "x", "y", "z", "w"}
    IN  {<<a>> : a \in names} \cup {<<a, b>> : a \in names, b \in names}
            \cup {<<"x", "y", a>> : a \in names}

PrevValue == IF sfPrev = JNull THEN Rec(<<>>) ELSE Deref(sfHeap, sfPrev)

C21_SetFieldSetsOnePath ==
    [][sfNext' # sfNext =>
        LET keys == PathKeys(sfPath)
            next == Deref(sfHeap', sfNext')
        IN  /\ At(next, keys) = sfValue
            /\ \A n \in 1..(Len(keys) - 1) : At(next, SubSeq(keys, 1, n)).t = "object"
            /\ \A p \in PathUniverse :
                   (~IsPrefix(p, keys) /\ ~IsPrefix(keys, p)) => At(next, p) = At(PrevValue, p)
            /\ \A r \in 1..Len(sfHeap) : sfHeap'[r] = sfHeap[r]
            /\ next = SetPath(PrevValue, keys, sfValue)]_vars

C21_Witness ==
    /\ sfNext # Undefined
    /\ sfPath = "bankroll.total"
    /\ sfPrev # JNull
    /\ At(Deref(sfHeap, sfPrev), <<"bankroll">>)
           = Rec([total |-> Ratio(1000, 1), daily_limit |-> Ratio(300, 1)])
    /\ At(Deref(sfHeap, sfNext), <<"bankroll">>)
           = Rec([total |-> Str("1300"), daily_limit |-> Ratio(300, 1)])


\* ---------------------------------------------------------------------
\* C30: for a non-2xx response the message of the Error request() throws
\* is payload.detail when it is truthy, else payload.error when it is
\* truthy, else "Request failed (<status>)", a message that is not a
\* string being JSON-stringified; a body that is not JSON is a null
\* payload, and a successful response without JSON resolves to null.
\* ---------------------------------------------------------------------
ClaimedMessage(status, payload) ==
    LET detail == Member(payload, "detail")
        err == Member(payload, "error")
        chosen == IF Truthy(detail) THEN detail
                  ELSE IF Truthy(err) THEN err
                  ELSE Str("Request failed (" \o ToString(status) \o ")")
    IN  IF chosen.t = "string" THEN chosen.s ELSE JSONstringify(chosen)

----------------------------------------------------------------------------
(* SeriesProbs and the series format: claims *)

\* some key a-b of the distribution has a side with 3 map wins
HasSideWithThree(keys) ==
    \E i \in 1..Len(keys) :
        LET sides == Split(keys[i], "-")
        IN  Len(sides) = 2 /\ (sides[1] = <<"3">> \/ sides[2] = <<"3">>)

ClaimedSeriesFormat ==
    IF scoreProbs.t = "object" /\ HasSideWithThree(Keys(scoreProbs)) THEN "Bo5" ELSE "Bo3"

BoTypeAbsent == seriesBoType.t \in {"null", "undefined"} \/ seriesBoType = Chars(<<>>)

\* C26: when boType is absent or is not recognisable as Bo3 or Bo5,
\* SeriesProbs takes the format from the keys of the score distribution,
\* Bo5 exactly when some key has a side with 3 map wins, and the chart
\* order and the format label are those of that format.
C26_FormatFromDistribution ==
    (charted /\ (BoTypeAbsent \/ formatBoType(seriesBoType) \notin {"Bo3", "Bo5"})) =>
        /\ formatLabel = ClaimedSeriesFormat
        /\ chartData = seriesChartData(scoreProbs, ClaimedSeriesFormat)

\* the part of C26 that the component does: an absent boType
FormatFromDistributionWhenAbsent ==
    (charted /\ BoTypeAbsent) =>
        /\ format = ClaimedSeriesFormat
        /\ formatLabel = ClaimedSeriesFormat
        /\ chartData = seriesChartData(scoreProbs, ClaimedSeriesFormat)

\* a final series score: the winner has 2 or 3 map wins, the loser fewer
FinalScore(a, b) ==
    /\ a.t = "number" /\ b.t = "number"
    /\ {a.h, b.h} \subseteq {0, Unit, 2 * Unit, 3 * Unit}
    /\ a.h # b.h
    /\ (a.h >= 2 * Unit \/ b.h >= 2 * Unit)

\* the distribution that holds the one key a-b
OnlyScore(a, b) == Object(<<[key |-> String(a) \o <<"-">> \o String(b), value |-> Num(Unit)]>>)

\* C27: for a final series score a-b, resolveBoType with an unrecognised bo
\* type and inferSeriesFormatFromScoreProbs over a distribution with the key
\* a-b return the same format; a score with 3 map wins on one side is Bo5
\* under both.
C27_SameFormatFromScoreAndKeys ==
    (boLabel # "" /\ formatBoType(match_bo_type) = "Bo?"
        /\ FinalScore(match_score1, match_score2)) =>
            /\ boLabel = inferSeriesFormatFromScoreProbs(OnlyScore(match_score1, match_score2))
            /\ (3 * Unit \in {match_score1.h, match_score2.h} => boLabel = "Bo5")

\* what holds of inferSeriesFormatFromScoreProbs alone
InferredFromFinalScore ==
    (boLabel # "" /\ FinalScore(match_score1, match_score2)) =>
        inferSeriesFormatFromScoreProbs(OnlyScore(match_score1, match_score2))
            = (IF 3 * Unit \in {match_score1.h, match_score2.h} THEN "Bo5" ELSE "Bo3")

NullCanonical(key) ==
    /\ InSeq(IF format = "Bo5" THEN BO5_ORDER ELSE BO3_ORDER, key)
    /\ Lookup(scoreProbs, key).t \in {"null", "undefined"}

\* C28 as claimed: seriesChartData returns exactly one row for every key of
\* scoreProbs, for either format.
C28_OneRowPerKey ==
    (charted /\ scoreProbs.t = "object") =>
        /\ NoDuplicates(ChartScores)
        /\ Range(ChartScores) = Range(Keys(scoreProbs))

\* C28 as amended: seriesChartData returns exactly one row for every key of
\* scoreProbs except the canonical scores of the format whose value is
\* null, which get no row; a key outside the canonical order gets its row
\* whatever its value.
C28_OneRowPerKeyButNullCanonical ==
    (charted /\ scoreProbs.t = "object") =>
        /\ NoDuplicates(ChartScores)
        /\ Range(ChartScores) = {k \in Range(Keys(scoreProbs)) : ~NullCanonical(k)}

C28_Witness ==
    /\ charted
    /\ format = "Bo3"
    /\ scoreProbs.t = "object"
    /\ Len(scoreProbs.entries) = 3
    /\ Lookup(scoreProbs, <<"2", "-", "0">>) = JNull
    /\ Lookup(scoreProbs, <<"1", "-", "1">>) = JNull
    /\ Lookup(scoreProbs, <<"3", "-", "0">>) = Num(50)
    /\ ChartScores = << <<"1", "-", "1">>, <<"3", "-", "0">> >>


----------------------------------------------------------------------------
(* DashboardPage.loadData: claims *)

\* load i settles in this step
LoadSettles(i, phase) ==
    /\ i \in 1..Len(loads)
    /\ loads[i].phase = "pending"
    /\ loads'[i].phase = phase

\* C22: a dashboard load updates events, config and matches together, and
\* only when its three requests have succeeded; when one of them fails the
\* error message is set, events and matches become empty and config is
\* left as it was.
C22_AllThreeOrNone ==
    [][(route = "/" /\ route' = "/") =>
        /\ (events' # events \/ config' # config \/ matches' # matches) =>
               \E i \in 1..MaxLoads : LoadSettles(i, "resolved") \/ LoadSettles(i, "rejected")
        /\ \A i \in 1..MaxLoads :
               /\ LoadSettles(i, "resolved") =>
                      /\ loads[i].pend \subseteq DashboardRequests
                      /\ loads'[i].pend = {}
                      /\ events' = Carried(loads'[i].res["getEvents"])
                      /\ config' = loads'[i].res["getConfig"]
                      /\ matches' = Carried(loads'[i].res["getMatches"])
                      /\ error' = error
               /\ LoadSettles(i, "rejected") =>
                      /\ error' # ""
                      /\ events' = <<>>
                      /\ matches' = <<>>
                      /\ config' = config]_vars

C22_Witness ==
    /\ route = "/"
    /\ Len(loads) = 2
    /\ loads[1].phase = "resolved"
    /\ loads[2].phase = "rejected"
    /\ loads[2].pend = {}
    /\ lastSettled = 2
    /\ error # ""
    /\ events = <<>>
    /\ matches = <<>>
    /\ config # JNull


\* C29: as long as the user has not edited the map-number field of
\* LivePanel, its value is the number of map results in the current live
\* state plus one, also after a successful submission updated the live
\* state.
C29_MapNumberFollowsLiveState ==
    ~mapEdited => mapNumber = ToString(Cardinality(liveState.map_results) + 1)

\* what holds of the field: until it is edited it keeps the value computed
\* from the live state the panel was mounted with
MapNumberKeepsMountValue ==
    [][~mapEdited' => mapNumber' = mapNumber]_vars


\* C25: every entry the structured form produces, written in the batch
\* format and parsed with parseBatch, comes back as exactly that entry.
C25_BatchRoundTrip ==
    rtDone => \A i \in 1..Len(structured) : parsed[i] = <<structured[i]>>

IsPistol(entry) == EndsWith(entry.market_type.c, Explode("_pistol_1h"))

\* what holds of the round trip: every entry but those of the pistol market
\* comes back as written, and a pistol entry comes back with the digits of
\* its market type, map number and "1h", as its map number
RoundTripButPistol ==
    rtDone => \A i \in 1..Len(structured) :
        IF IsPistol(structured[i])
        THEN parsed[i] = <<[structured[i] EXCEPT
                              !.map_number = Num(structured[i].map_number.h * 10 + Unit)]>>
        ELSE parsed[i] = <<structured[i]>>


----------------------------------------------------------------------------
(* OddsForm's busy flag: claims *)

\* the OddsForm requests in flight: the one the mounted form awaits and
\* those of forms that have left the tree
OddsInFlight == Awaited.odds + orphans.odds

IssuesOddsRequest == Awaited.odds = 0 /\ Awaited'.odds = 1

----------------------------------------------------------------------------
(* MatchAnalysisPage.loadAll: claims *)

\* run n of loadAll settles in this step
RunSettles(n) == n \in pageLoads /\ n \notin pageLoads'

\* C23: match and analysis are replaced together only, by the two
\* responses of one run of loadAll; a run that fails replaces neither; and
\* while the error is non-empty the page shows the error message alone,
\* without the match data it holds or the forms.
C23_ReplacedTogetherOrNotAtAll ==
    /\ [](match.run = analysis.run)
    /\ [][(match' # match \/ analysis' # analysis) =>
            \E n \in 1..MaxReloads :
                /\ RunSettles(n)
                /\ match' = MatchResponse(n)
                /\ analysis' = AnalysisResponse(n)
                /\ pageError' = pageError]_vars
    /\ [][(pageError' # pageError /\ pageError' # "") =>
            /\ \E n \in 1..MaxReloads : RunSettles(n)
            /\ match' = match
            /\ analysis' = analysis]_vars
    /\ [](pageError # "" => (PageView = "error" /\ ~Mounted /\ values = <<>> /\ vetoText = <<>>))

C23_Witness ==
    /\ pageError # ""
    /\ PageView = "error"
    /\ match = MatchResponse(1)
    /\ analysis = AnalysisResponse(1)
    /\ reloads = 2
    /\ pageLoads = {}

====
